---- MODULE Spec2Model ----
(***************************************************************************)
(* Task Center: the parser (parsers/task_parser.py), the priority scorer   *)
(* (analysis/prioritizer.py), the recommendation selector                  *)
(* (analysis/recommendation_engine.py) and the classifier's application of *)
(* a result (ai/classifier.py), as state machines over a task collection.  *)
(*                                                                         *)
(* Representation.                                                         *)
(*  - A text is a sequence of Unicode code points (1089 is the Cyrillic    *)
(*    small letter es, 97 is Latin a), so that lower(), substring search   *)
(*    and the regular expressions act on characters as in the source.      *)
(*  - Hours are whole hours (an estimate of 3 is 3.0 h).                   *)
(*  - A sub-score is held in thousandths (0.3 is 300), a weight in         *)
(*    hundredths (0.30 is 30), a composite score in tenths (87.5 is 875).  *)
(*  - A moment is [day, tick]: a day number and a tick of that day,        *)
(*    TicksPerDay ticks to the day.                                        *)
(*  - A task id (a uuid4 string in the source) is a positive integer.      *)
(*  - A value that may be None is None or Some(v).                         *)
(***************************************************************************)
EXTENDS Integers, Sequences, FiniteSets, TLC

VARIABLES
    tasks,      \* the task collection, a sequence of Task records
    maxTasks,   \* Config.MAX_RECOMMENDED_TASKS, read from the environment
    now,        \* the wall clock datetime.now() reads
    rec,        \* what the last recommend_for_today call returned, or None
    wasBlocked, \* history: ids the runs dropped for a dependency, while only completions followed
    scored,     \* what the last calculate_score call computed, or None
    parsed,     \* the last parse_task_list call: its text, its calls, its tasks; or None
    store,      \* the data directory: tasks.json (or None) and the names of the backup files
    answer,     \* the last TaskStorage or calculate_delay call: name, argument, outcome
    limiter,    \* the ClaudeClient's RateLimiter object
    sending     \* the send_message call in progress or the last one finished

vars == <<tasks, maxTasks, now, rec, wasBlocked, scored, parsed, store, answer, limiter, sending>>

\* An optional value: None, or Some(v)
None == <<>>

Some(v) == <<v>>

Get(opt) == opt[1]

(***************************************************************************)
(* Bounds of the model.                                                    *)
(***************************************************************************)
MaxTasks == 3
MaxDeps == 2
MaxCap == 2
MaxSelTasks == 3
MaxParsed == 2
TicksPerDay == 2
MaxStored == 3
MaxRetries == 2
MaxAttempt == 3
MaxTotalRetries == 3

(***************************************************************************)
(* core/models.py: the enumerations.                                       *)
(***************************************************************************)
TaskType == {"ANALYSIS", "DOCUMENTATION", "DEVELOPMENT", "COORDINATION", "BUG", "UNKNOWN"}

Complexity == {"LOW", "MEDIUM", "HIGH"}

Priority == {"CRITICAL", "HIGH", "MEDIUM", "LOW", "BACKLOG"}

Status == {"NEW", "IN_PROGRESS", "BLOCKED", "REVIEW", "DONE", "CANCELLED"}

(***************************************************************************)
(* Texts.                                                                  *)
(***************************************************************************)
Space == 32
Period == 46

\* str.lower() on the Latin and Cyrillic letters
LowerChar(c) ==
    IF c \in 65..90 THEN c + 32
    ELSE IF c \in 1040..1071 THEN c + 32
    ELSE IF c = 1025 THEN 1105
    ELSE c

Lower(text) == [i \in 1..Len(text) |-> LowerChar(text[i])]

\* kw in text
Contains(text, kw) ==
    \E i \in 1..(Len(text) - Len(kw) + 1) : SubSeq(text, i, i + Len(kw) - 1) = kw

\* what \s matches
SpaceChars == {9, 10, 11, 12, 13, 28, 29, 30, 31, 32, 133, 160}

\* what \d matches
DigitChars == 48..57

Min(S) == CHOOSE x \in S : \A y \in S : x <= y

\* the length of the longest run of characters of S in text, starting at from
RunIn(text, from, S) ==
    (CHOOSE i \in from..(Len(text) + 1) : i > Len(text) \/ text[i] \notin S) - from

\* the length of the longest run of characters not in S in text, starting at from
RunNotIn(text, from, S) ==
    (CHOOSE i \in from..(Len(text) + 1) : i > Len(text) \/ text[i] \in S) - from

\* text.startswith(word, at - 1)
StartsWithAt(text, at, word) ==
    /\ at + Len(word) - 1 <= Len(text)
    /\ text[at] = word[1]
    /\ SubSeq(text, at, at + Len(word) - 1) = word

\* str.strip()
Strip(text) ==
    LET lead == RunIn(text, 1, SpaceChars)
        last == CHOOSE n \in lead..Len(text) :
                    /\ n = lead \/ text[n] \notin SpaceChars
                    /\ \A m \in (n + 1)..Len(text) : text[m] \in SpaceChars
    IN SubSeq(text, lead + 1, last)

(***************************************************************************)
(* core/models.py: a Task.  deps is the dependency list as a set: the      *)
(* source only tests membership and emptiness.  est is                     *)
(* metadata.estimated_hours, conf is ai_classification_confidence.         *)
(***************************************************************************)
NewTask(id) ==
    [id |-> id, title |-> <<>>, description |-> <<>>, original_text |-> <<>>,
     task_type |-> "UNKNOWN", complexity |-> "MEDIUM", priority |-> "MEDIUM",
     status |-> "NEW", deps |-> {}, deadline |-> None, est |-> None, conf |-> 0,
     key_terms |-> <<>>, related_systems |-> <<>>, ai_recommendations |-> None,
     jira_references |-> <<>>, mentions |-> <<>>]

(***************************************************************************)
(* analysis/prioritizer.py                                                 *)
(***************************************************************************)
\* WEIGHTS, in hundredths
WEIGHTS ==
    [base_priority |-> 30, deadline |-> 25, urgency_keywords |-> 20,
     blocking |-> 15, ai_confidence |-> 10]

\* URGENCY_KEYWORDS: srochno, kritichno, bloker, asap, gorit, segodnya, nemedlenno
ScorerUrgencyKeywords ==
    << <<1089, 1088, 1086, 1095, 1085, 1086>>,
       <<1082, 1088, 1080, 1090, 1080, 1095, 1085, 1086>>,
       <<1073, 1083, 1086, 1082, 1077, 1088>>,
       <<97, 115, 97, 112>>,
       <<1075, 1086, 1088, 1080, 1090>>,
       <<1089, 1077, 1075, 1086, 1076, 1085, 1103>>,
       <<1085, 1077, 1084, 1077, 1076, 1083, 1077, 1085, 1085, 1086>> >>

MinOf(a, b) == IF a <= b THEN a ELSE b

MaxOf(a, b) == IF a >= b THEN a ELSE b

\* round(x, 1) of x = n / d tenths: to the nearest integer, a tie to the even one
RoundHalfEven(n, d) ==
    LET q == n \div d
        r == n % d
    IN IF 2 * r < d THEN q
       ELSE IF 2 * r > d THEN q + 1
       ELSE IF q % 2 = 0 THEN q ELSE q + 1

score_base_priority(task) ==
    CASE task.priority = "CRITICAL" -> 1000
      [] task.priority = "HIGH" -> 800
      [] task.priority = "MEDIUM" -> 500
      [] task.priority = "LOW" -> 300
      [] task.priority = "BACKLOG" -> 100
      [] OTHER -> 500

\* (deadline - clock).days: a timedelta's days is the floor of the difference in days
DaysUntil(deadline, clock) ==
    ((deadline.day - clock.day) * TicksPerDay + deadline.tick - clock.tick) \div TicksPerDay

score_deadline(task, clock) ==
    IF task.deadline = None THEN 300
    ELSE LET days_until == DaysUntil(Get(task.deadline), clock)
         IN IF days_until < 0 THEN 1000
            ELSE IF days_until = 0 THEN 1000
            ELSE IF days_until = 1 THEN 900
            ELSE IF days_until <= 3 THEN 800
            ELSE IF days_until <= 7 THEN 600
            ELSE IF days_until <= 14 THEN 400
            ELSE 200

\* f"{task.title} {task.description} {task.original_text}".lower()
TextToCheck(task) ==
    Lower(task.title \o <<Space>> \o task.description \o <<Space>> \o task.original_text)

FoundKeywords(text, keywords) ==
    {k \in 1..Len(keywords) : Contains(text, keywords[k])}

score_urgency_keywords(task) ==
    LET found_keywords == FoundKeywords(TextToCheck(task), ScorerUrgencyKeywords)
    IN IF found_keywords = {} THEN 0
       ELSE MinOf(1000, Cardinality(found_keywords) * 500)

score_blocking(task, all_tasks) ==
    IF task.deps = {} THEN 0
    ELSE LET dependent_tasks ==
                 {k \in 1..Len(all_tasks) :
                     task.id \in all_tasks[k].deps /\ all_tasks[k].status # "DONE"}
         IN IF dependent_tasks = {} THEN 0
            ELSE MinOf(1000, Cardinality(dependent_tasks) * 300)

score_ai_confidence(task) == task.conf

SubScores(task, all_tasks, clock) ==
    [base_priority |-> score_base_priority(task),
     deadline |-> score_deadline(task, clock),
     urgency_keywords |-> score_urgency_keywords(task),
     blocking |-> score_blocking(task, all_tasks),
     ai_confidence |-> score_ai_confidence(task)]

\* sum(scores[f] * WEIGHTS[f]) * 100, in thousandths
WeightedSum(scores) ==
    scores.base_priority * WEIGHTS.base_priority
    + scores.deadline * WEIGHTS.deadline
    + scores.urgency_keywords * WEIGHTS.urgency_keywords
    + scores.blocking * WEIGHTS.blocking
    + scores.ai_confidence * WEIGHTS.ai_confidence

\* the composite score, in tenths
calculate_score(task, all_tasks, clock) ==
    RoundHalfEven(WeightedSum(SubScores(task, all_tasks, clock)), 100)

ImportanceLevel(score) ==
    IF score >= 800 THEN "critical"
    ELSE IF score >= 600 THEN "high"
    ELSE IF score >= 400 THEN "medium"
    ELSE "low"

\* a ranking that leaves only the finished tasks out
IsActiveOnlyDone(task) == task.status # "DONE"

IsActive(task) == task.status # "DONE" /\ task.status # "CANCELLED"

ScoredItem(task, all_tasks, clock) ==
    LET score == calculate_score(task, all_tasks, clock)
    IN [task |-> task, score |-> score, importance_level |-> ImportanceLevel(score)]

\* list.sort(key=score, reverse=True): stable, equal scores keep their order
\* a sort that puts an item before the items of equal score
RECURSIVE SortByScoreDescTiesReversed(_)
SortByScoreDescTiesReversed(items) ==
    IF items = <<>> THEN <<>>
    ELSE LET n == Len(items)
             last == items[n]
             sorted == SortByScoreDescTiesReversed(SubSeq(items, 1, n - 1))
             before == {k \in 1..Len(sorted) : sorted[k].score <= last.score}
             pos == IF before = {} THEN Len(sorted) + 1 ELSE Min(before)
         IN SubSeq(sorted, 1, pos - 1) \o <<last>> \o SubSeq(sorted, pos, Len(sorted))

RECURSIVE SortByScoreDesc(_)
SortByScoreDesc(items) ==
    IF items = <<>> THEN <<>>
    ELSE LET n == Len(items)
             last == items[n]
             sorted == SortByScoreDesc(SubSeq(items, 1, n - 1))
             before == {k \in 1..Len(sorted) : sorted[k].score < last.score}
             pos == IF before = {} THEN Len(sorted) + 1 ELSE Min(before)
         IN SubSeq(sorted, 1, pos - 1) \o <<last>> \o SubSeq(sorted, pos, Len(sorted))

prioritize_tasks(all_tasks, clock) ==
    LET active_tasks == SelectSeq(all_tasks, IsActive)
        results == [k \in 1..Len(active_tasks) |->
                       ScoredItem(active_tasks[k], all_tasks, clock)]
    IN SortByScoreDesc(results)

(***************************************************************************)
(* config.py and analysis/recommendation_engine.py                         *)
(***************************************************************************)
DEFAULT_AVAILABLE_HOURS == 8

MAX_RECOMMENDED_TASKS == 5

DefaultEstimate == 2

\* task.metadata.estimated_hours or 2.0: None and 0 are both falsy
Estimated(task) ==
    IF task.est = None \/ Get(task.est) = 0 THEN DefaultEstimate ELSE Get(task.est)

\* a filter that takes a cancelled dependency for a finished one
BlockingDepsCancelledFree(task, all_tasks) ==
    {dep_id \in task.deps :
        \E k \in 1..Len(all_tasks) :
            all_tasks[k].id = dep_id /\ all_tasks[k].status \notin {"DONE", "CANCELLED"}}

\* a filter for which a dependency blocks unless a finished task carries its id
BlockingDepsUnlessDone(task, all_tasks) ==
    {dep_id \in task.deps :
        ~\E k \in 1..Len(all_tasks) :
            all_tasks[k].id = dep_id /\ all_tasks[k].status = "DONE"}

\* a filter that lets a dependency pass when the task depended on lists this
\* task in turn
BlockingDepsMutualFree(task, all_tasks) ==
    {dep_id \in task.deps :
        \E k \in 1..Len(all_tasks) :
            /\ all_tasks[k].id = dep_id
            /\ all_tasks[k].status # "DONE"
            /\ task.id \notin all_tasks[k].deps}

BlockingDeps(task, all_tasks) ==
    {dep_id \in task.deps :
        \E k \in 1..Len(all_tasks) :
            all_tasks[k].id = dep_id /\ all_tasks[k].status # "DONE"}

IsAvailable(item, all_tasks) ==
    /\ item.task.status \notin {"DONE", "CANCELLED"}
    /\ (item.task.deps = {} \/ BlockingDeps(item.task, all_tasks) = {})

filter_available_tasks(prioritized, all_tasks) ==
    LET Keep(item) == IsAvailable(item, all_tasks)
    IN SelectSeq(prioritized, Keep)

\* a selection that never charges the accepted task to the remaining hours
RECURSIVE SelectFromUncharged(_, _, _, _, _)
SelectFromUncharged(available_tasks, i, selected, remaining_hours, cap) ==
    IF i > Len(available_tasks) THEN selected
    ELSE LET item == available_tasks[i]
             estimated == Estimated(item.task)
         IN IF estimated <= remaining_hours
            THEN IF Len(selected) + 1 >= cap
                 THEN Append(selected, item)
                 ELSE SelectFromUncharged(available_tasks, i + 1, Append(selected, item),
                                          remaining_hours, cap)
            ELSE SelectFromUncharged(available_tasks, i + 1, selected, remaining_hours, cap)

\* the loop of _select_optimal_set from item i on
RECURSIVE SelectFrom(_, _, _, _, _)
SelectFrom(available_tasks, i, selected, remaining_hours, cap) ==
    IF i > Len(available_tasks) THEN selected
    ELSE LET item == available_tasks[i]
             estimated == Estimated(item.task)
         IN IF estimated <= remaining_hours
            THEN IF Len(selected) + 1 >= cap
                 THEN Append(selected, item)
                 ELSE SelectFrom(available_tasks, i + 1, Append(selected, item),
                                 remaining_hours - estimated, cap)
            ELSE SelectFrom(available_tasks, i + 1, selected, remaining_hours, cap)

select_optimal_set(available_tasks, available_hours, cap) ==
    SelectFrom(available_tasks, 1, <<>>, available_hours, cap)

RECURSIVE SumEstimated(_)
SumEstimated(items) ==
    IF items = <<>> THEN 0
    ELSE Estimated(items[1].task) + SumEstimated(Tail(items))

\* hours is the caller's available_hours, None when it is left out
\* a result whose remaining hours are the plain difference
recommend_for_todayUnclamped(all_tasks, hours, cap, clock) ==
    LET available_hours == IF hours = None THEN DEFAULT_AVAILABLE_HOURS ELSE Get(hours)
        prioritized == prioritize_tasks(all_tasks, clock)
        available_tasks == filter_available_tasks(prioritized, all_tasks)
        recommended == select_optimal_set(available_tasks, available_hours, cap)
        total_hours == SumEstimated(recommended)
    IN [recommended |-> recommended,
        total_tasks |-> Len(recommended),
        total_hours |-> total_hours,
        available_hours |-> available_hours,
        remaining_hours |-> available_hours - total_hours]

recommend_for_today(all_tasks, hours, cap, clock) ==
    LET available_hours == IF hours = None THEN DEFAULT_AVAILABLE_HOURS ELSE Get(hours)
        prioritized == prioritize_tasks(all_tasks, clock)
        available_tasks == filter_available_tasks(prioritized, all_tasks)
        recommended == select_optimal_set(available_tasks, available_hours, cap)
        total_hours == SumEstimated(recommended)
    IN [recommended |-> recommended,
        total_tasks |-> Len(recommended),
        total_hours |-> total_hours,
        available_hours |-> available_hours,
        remaining_hours |-> MaxOf(0, available_hours - total_hours)]

(***************************************************************************)
(* parsers/task_parser.py                                                  *)
(***************************************************************************)
\* URGENCY_KEYWORDS: srochno, kritichno, bloker, asap, segodnya, gorit
ParserUrgencyKeywords ==
    << <<1089, 1088, 1086, 1095, 1085, 1086>>,
       <<1082, 1088, 1080, 1090, 1080, 1095, 1085, 1086>>,
       <<1073, 1083, 1086, 1082, 1077, 1088>>,
       <<97, 115, 97, 112>>,
       <<1089, 1077, 1075, 1086, 1076, 1085, 1103>>,
       <<1075, 1086, 1088, 1080, 1090>> >>

TitleCap == 100

Newline == 10

\* re.sub(r'^\s*\d+[\.)]\s*', '', text)
StripNumberPrefix(text) ==
    LET ws == RunIn(text, 1, SpaceChars)
        digits == RunIn(text, ws + 1, DigitChars)
        mark == ws + digits + 1
    IN IF digits >= 1 /\ mark <= Len(text) /\ text[mark] \in {Period, 41}
       THEN SubSeq(text, mark + RunIn(text, mark + 1, SpaceChars) + 1, Len(text))
       ELSE text

\* re.match(r'^([^\.]+)', clean_text), then group(1).strip() or clean_text[:100]
ParseTitle(clean_text) ==
    LET n == RunNotIn(clean_text, 1, {Period})
    IN IF n >= 1 THEN Strip(SubSeq(clean_text, 1, n))
       ELSE SubSeq(clean_text, 1, MinOf(TitleCap, Len(clean_text)))

\* [A-Z] under re.IGNORECASE
JiraLetters == (65..90) \cup (97..122) \cup {304, 305, 383, 8490}

\* \w on the Latin and Cyrillic letters, the digits and the underscore
WordChars ==
    DigitChars \cup (65..90) \cup (97..122) \cup {95} \cup (1040..1103) \cup {1025, 1105}

\* [\w\./]
UrlChars == WordChars \cup {46, 47}

\* [A-Z]{2,}-\d+ at a position: the length matched, 0 for no match
TicketAt(text, at) ==
    LET letters == RunIn(text, at, JiraLetters)
        dash == at + letters
    IN IF letters >= 2 /\ dash < Len(text) /\ text[dash] = 45
          /\ RunIn(text, dash + 1, DigitChars) >= 1
       THEN letters + 1 + RunIn(text, dash + 1, DigitChars)
       ELSE 0

HttpsJira == <<104, 116, 116, 112, 115, 58, 47, 47, 106, 105, 114, 97, 46>>

HttpJira == <<104, 116, 116, 112, 58, 47, 47, 106, 105, 114, 97, 46>>

Browse == <<47, 98, 114, 111, 119, 115, 101, 47>>

Http == <<104, 116, 116, 112>>

\* https?://jira\.[\w\./]+/browse/([A-Z]{2,}-\d+) at a position: the length
\* matched and where group 2 starts, length 0 for no match
UrlAt(text, lowered, at) ==
    LET scheme == IF StartsWithAt(lowered, at, HttpsJira) THEN Len(HttpsJira)
                  ELSE IF StartsWithAt(lowered, at, HttpJira) THEN Len(HttpJira)
                  ELSE 0
        host == at + scheme
        splits == {k \in 1..RunIn(text, host, UrlChars) :
                      /\ StartsWithAt(lowered, host + k, Browse)
                      /\ TicketAt(text, host + k + Len(Browse)) > 0}
    IN IF scheme = 0 \/ splits = {} THEN [len |-> 0, group2 |-> 0]
       ELSE LET k == CHOOSE x \in splits : \A y \in splits : y <= x
                ticket == host + k + Len(Browse)
            IN [len |-> scheme + k + Len(Browse) + TicketAt(text, ticket),
                group2 |-> ticket]

\* JIRA_PATTERN at a position: group 1 is tried before the URL
JiraMatchAt(text, lowered, at) ==
    IF TicketAt(text, at) > 0
    THEN [len |-> TicketAt(text, at), group1 |-> TRUE, group2 |-> 0]
    ELSE [len |-> UrlAt(text, lowered, at).len, group1 |-> FALSE,
          group2 |-> UrlAt(text, lowered, at).group2]

\* ticket_id.split('-')[0]
Project(ticket_id) == SubSeq(ticket_id, 1, RunNotIn(ticket_id, 1, {45}))

\* the body of the loop of _extract_jira_refs for one match
JiraRefsOfMatch(text, at, match) ==
    LET full_match == SubSeq(text, at, at + match.len - 1)
    IN IF StartsWithAt(full_match, 1, Http)
       THEN IF match.group2 > 0
            THEN LET ticket_id == SubSeq(text, match.group2, at + match.len - 1)
                 IN <<[ticket_id |-> ticket_id, url |-> Some(full_match),
                       project |-> Project(ticket_id)]>>
            ELSE <<>>
       ELSE IF match.group1
            THEN <<[ticket_id |-> full_match, url |-> None,
                    project |-> Project(full_match)]>>
            ELSE <<>>

\* re.finditer(JIRA_PATTERN, text, re.IGNORECASE) from a position on
RECURSIVE JiraRefsFrom(_, _, _)
JiraRefsFrom(text, lowered, from) ==
    LET at == CHOOSE p \in from..(Len(text) + 1) :
                  p > Len(text) \/ JiraMatchAt(text, lowered, p).len > 0
    IN IF at > Len(text) THEN <<>>
       ELSE LET match == JiraMatchAt(text, lowered, at)
            IN JiraRefsOfMatch(text, at, match)
               \o JiraRefsFrom(text, lowered, at + match.len)

extract_jira_refs(text) == JiraRefsFrom(text, Lower(text), 1)

\* [A-YaYo] and [a-yayo] of MENTION_PATTERN
NameUpper == (1040..1071) \cup {1025}

NameLower == (1072..1103) \cup {1105}

\* "ot", "zadacha", "svyazatsya s", "soglasovat s", "peredat", in the order
\* the pattern tries them
MentionTriggers ==
    << <<1086, 1090>>,
       <<1079, 1072, 1076, 1072, 1095, 1072>>,
       <<1089, 1074, 1103, 1079, 1072, 1090, 1100, 1089, 1103, 32, 1089>>,
       <<1089, 1086, 1075, 1083, 1072, 1089, 1086, 1074, 1072, 1090, 1100, 32, 1089>>,
       <<1087, 1077, 1088, 1077, 1076, 1072, 1090, 1100>> >>

\* the words _extract_mentions looks for in the matched text, in its order, each
\* with its context: "soglasovat" -> "soglasovanie", "svyazatsya" ->
\* "koordinaciya", "peredat" -> "delegirovanie", "ot" -> "postanovshchik",
\* "zadacha" -> "avtor"
MentionContexts ==
    << [word |-> <<1089, 1086, 1075, 1083, 1072, 1089, 1086, 1074, 1072, 1090, 1100>>,
        context |-> <<1089, 1086, 1075, 1083, 1072, 1089, 1086, 1074, 1072, 1085, 1080, 1077>>],
       [word |-> <<1089, 1074, 1103, 1079, 1072, 1090, 1100, 1089, 1103>>,
        context |-> <<1082, 1086, 1086, 1088, 1076, 1080, 1085, 1072, 1094, 1080, 1103>>],
       [word |-> <<1087, 1077, 1088, 1077, 1076, 1072, 1090, 1100>>,
        context |-> <<1076, 1077, 1083, 1077, 1075, 1080, 1088, 1086, 1074, 1072, 1085, 1080, 1077>>],
       [word |-> <<1086, 1090>>,
        context |-> <<1087, 1086, 1089, 1090, 1072, 1085, 1086, 1074, 1097, 1080, 1082>>],
       [word |-> <<1079, 1072, 1076, 1072, 1095, 1072>>,
        context |-> <<1072, 1074, 1090, 1086, 1088>>] >>

\* [A-YaYo][a-yayo]+ at a position: the length matched, 0 for no match
NameAt(text, at) ==
    IF at <= Len(text) /\ text[at] \in NameUpper /\ RunIn(text, at + 1, NameLower) >= 1
    THEN 1 + RunIn(text, at + 1, NameLower)
    ELSE 0

\* a name and, when one follows after white space, a second name
FullNameAt(text, at) ==
    LET first == NameAt(text, at)
        ws == RunIn(text, at + first, SpaceChars)
        second == IF ws >= 1 THEN NameAt(text, at + first + ws) ELSE 0
    IN IF first = 0 THEN 0
       ELSE IF second > 0 THEN first + ws + second
       ELSE first

\* MENTION_PATTERN at a position: the length matched and where the name
\* starts, length 0 for no match
MentionAt(text, at) ==
    LET found == {t \in 1..Len(MentionTriggers) :
                     /\ StartsWithAt(text, at, MentionTriggers[t])
                     /\ RunIn(text, at + Len(MentionTriggers[t]), SpaceChars) >= 1
                     /\ FullNameAt(text, at + Len(MentionTriggers[t])
                            + RunIn(text, at + Len(MentionTriggers[t]), SpaceChars)) > 0}
    IN IF found = {} THEN [len |-> 0, name |-> 0]
       ELSE LET t == CHOOSE x \in found : \A y \in found : x <= y
                name == at + Len(MentionTriggers[t])
                        + RunIn(text, at + Len(MentionTriggers[t]), SpaceChars)
            IN [len |-> name - at + FullNameAt(text, name), name |-> name]

\* the if/elif chain over the lowered matched text
MentionContext(matched_text) ==
    LET hits == {c \in 1..Len(MentionContexts) :
                    Contains(matched_text, MentionContexts[c].word)}
    IN IF hits = {} THEN None
       ELSE Some(MentionContexts[CHOOSE x \in hits : \A y \in hits : x <= y].context)

\* re.finditer(MENTION_PATTERN, text) from a position on
RECURSIVE MentionsFrom(_, _)
MentionsFrom(text, from) ==
    LET at == CHOOSE p \in from..(Len(text) + 1) :
                  p > Len(text) \/ MentionAt(text, p).len > 0
    IN IF at > Len(text) THEN <<>>
       ELSE LET match == MentionAt(text, at)
                name == SubSeq(text, match.name, at + match.len - 1)
                matched_text == Lower(SubSeq(text, at, at + match.len - 1))
            IN <<[name |-> Strip(name), role |-> None,
                  mention_context |-> MentionContext(matched_text)]>>
               \o MentionsFrom(text, at + match.len)

extract_mentions(text) == MentionsFrom(text, 1)

\* the search without text.lower()
is_urgentCaseSensitive(text) == FoundKeywords(text, ParserUrgencyKeywords) # {}

\* _is_urgent
is_urgent(text) == FoundKeywords(Lower(text), ParserUrgencyKeywords) # {}

\* _parse_single_task without the return for an empty clean_text
parse_single_taskKeepingEmpty(text, id) ==
    LET clean_text == StripNumberPrefix(text)
    IN Some([NewTask(id) EXCEPT
                !.original_text = text,
                !.title = ParseTitle(clean_text),
                !.description = clean_text])

\* _parse_single_task; id is the uuid4 the new Task draws
parse_single_task(text, id) ==
    LET clean_text == StripNumberPrefix(text)
    IN IF clean_text = <<>> THEN None
       ELSE Some([NewTask(id) EXCEPT
                     !.original_text = text,
                     !.title = ParseTitle(clean_text),
                     !.description = clean_text,
                     !.jira_references = extract_jira_refs(clean_text),
                     !.mentions = extract_mentions(clean_text),
                     !.priority = IF is_urgent(clean_text) THEN "HIGH" ELSE @])

\* text.split('\n')
RECURSIVE SplitLines(_)
SplitLines(text) ==
    LET n == RunNotIn(text, 1, {Newline})
    IN IF n = Len(text) THEN <<text>>
       ELSE <<SubSeq(text, 1, n)>> \o SplitLines(SubSeq(text, n + 2, Len(text)))

\* the loop of parse_task_list: the calls of _parse_single_task it makes, each
\* with the line it hands over and what comes back; nextId is the next fresh id
RECURSIVE ParseCalls(_, _)
ParseCalls(lines, nextId) ==
    IF lines = <<>> THEN <<>>
    ELSE LET line == Strip(lines[1])
         IN IF line = <<>> THEN ParseCalls(Tail(lines), nextId)
            ELSE LET task == parse_single_task(line, nextId)
                 IN <<[text |-> line, task |-> task]>>
                    \o ParseCalls(Tail(lines), nextId + Len(task))

\* tasks.append(task) for every call that returned a task
RECURSIVE AppendedTasks(_)
AppendedTasks(calls) ==
    IF calls = <<>> THEN <<>> ELSE calls[1].task \o AppendedTasks(Tail(calls))

parse_task_list(text, nextId) ==
    AppendedTasks(ParseCalls(SplitLines(Strip(text)), nextId))

(***************************************************************************)
(* core/models.py: Task.to_dict and Task.from_dict, the form in which a    *)
(* task is written to tasks.json and read back.  An enumeration member is  *)
(* written as its value (a text), the priority as its name, a datetime in  *)
(* ISO format.                                                             *)
(***************************************************************************)
TaskTypeValue ==
    [ANALYSIS |-> <<1040, 1085, 1072, 1083, 1080, 1079, 47, 1048, 1089, 1089, 1083,
                    1077, 1076, 1086, 1074, 1072, 1085, 1080, 1077>>,
     DOCUMENTATION |-> <<1044, 1086, 1082, 1091, 1084, 1077, 1085, 1090, 1072, 1094,
                         1080, 1103>>,
     DEVELOPMENT |-> <<1056, 1072, 1079, 1088, 1072, 1073, 1086, 1090, 1082, 1072>>,
     COORDINATION |-> <<1050, 1086, 1086, 1088, 1076, 1080, 1085, 1072, 1094, 1080, 1103>>,
     BUG |-> <<1041, 1072, 1075, 47, 1055, 1088, 1086, 1073, 1083, 1077, 1084, 1072>>,
     UNKNOWN |-> <<1053, 1077, 1080, 1079, 1074, 1077, 1089, 1090, 1085, 1086>>]

ComplexityValue ==
    [LOW |-> <<1085, 1080, 1079, 1082, 1072, 1103>>,
     MEDIUM |-> <<1089, 1088, 1077, 1076, 1085, 1103, 1103>>,
     HIGH |-> <<1074, 1099, 1089, 1086, 1082, 1072, 1103>>]

StatusValue ==
    [NEW |-> <<1085, 1086, 1074, 1072, 1103>>,
     IN_PROGRESS |-> <<1074, 32, 1088, 1072, 1073, 1086, 1090, 1077>>,
     BLOCKED |-> <<1079, 1072, 1073, 1083, 1086, 1082, 1080, 1088, 1086, 1074, 1072,
                   1085, 1072>>,
     REVIEW |-> <<1085, 1072, 32, 1087, 1088, 1086, 1074, 1077, 1088, 1082, 1077>>,
     DONE |-> <<1079, 1072, 1074, 1077, 1088, 1096, 1077, 1085, 1072>>,
     CANCELLED |-> <<1086, 1090, 1084, 1077, 1085, 1077, 1085, 1072>>]

\* datetime.isoformat() and datetime.fromisoformat() on a moment
isoformat(moment) == <<moment.day, moment.tick>>

fromisoformat(stamp) == [day |-> stamp[1], tick |-> stamp[2]]

\* the loops "for m in Enum: if m.value == data[key]" with their defaults
MemberOfValue(values, value, default) ==
    IF \E member \in DOMAIN values : values[member] = value
    THEN CHOOSE member \in DOMAIN values : values[member] = value
    ELSE default

\* a Task with its metadata.updated_at, which the storage layer writes
Stamped(task, moment) ==
    [id |-> task.id, title |-> task.title, description |-> task.description,
     original_text |-> task.original_text, task_type |-> task.task_type,
     complexity |-> task.complexity, priority |-> task.priority, status |-> task.status,
     deps |-> task.deps, deadline |-> task.deadline, est |-> task.est, conf |-> task.conf,
     key_terms |-> task.key_terms, related_systems |-> task.related_systems,
     ai_recommendations |-> task.ai_recommendations,
     jira_references |-> task.jira_references, mentions |-> task.mentions,
     updated_at |-> moment]

to_dict(task) ==
    [id |-> task.id,
     title |-> task.title,
     description |-> task.description,
     original_text |-> task.original_text,
     task_type |-> TaskTypeValue[task.task_type],
     complexity |-> ComplexityValue[task.complexity],
     priority |-> task.priority,
     status |-> StatusValue[task.status],
     jira_references |-> task.jira_references,
     mentions |-> task.mentions,
     dependencies |-> task.deps,
     deadline |-> IF task.deadline # None THEN Some(isoformat(Get(task.deadline)))
                  ELSE None,
     key_terms |-> task.key_terms,
     related_systems |-> task.related_systems,
     updated_at |-> Some(isoformat(task.updated_at)),
     estimated_hours |-> task.est,
     ai_classification_confidence |-> task.conf,
     ai_recommendations |-> task.ai_recommendations]

from_dict(data, moment) ==
    [id |-> data.id,
     title |-> data.title,
     description |-> data.description,
     original_text |-> data.original_text,
     task_type |-> MemberOfValue(TaskTypeValue, data.task_type, "UNKNOWN"),
     complexity |-> MemberOfValue(ComplexityValue, data.complexity, "MEDIUM"),
     priority |-> IF data.priority \in Priority THEN data.priority ELSE "MEDIUM",
     status |-> MemberOfValue(StatusValue, data.status, "NEW"),
     jira_references |-> data.jira_references,
     mentions |-> data.mentions,
     deps |-> data.dependencies,
     deadline |-> IF data.deadline # None THEN Some(fromisoformat(Get(data.deadline)))
                  ELSE None,
     key_terms |-> data.key_terms,
     related_systems |-> data.related_systems,
     updated_at |-> IF data.updated_at # None THEN fromisoformat(Get(data.updated_at))
                    ELSE moment,
     est |-> data.estimated_hours,
     conf |-> data.ai_classification_confidence,
     ai_recommendations |-> data.ai_recommendations]

(***************************************************************************)
(* core/storage.py: TaskStorage.  The data directory holds tasks.json and  *)
(* the backup files.                                                       *)
(***************************************************************************)
KeptBackups == 10

EmptyStore == [file |-> None, backups |-> {}]

\* str.startswith
startswith(text, prefix) ==
    /\ Len(prefix) <= Len(text)
    /\ SubSeq(text, 1, Len(prefix)) = prefix

\* the name of a backup file: the time of the copy, to the second
BackupName(moment) == <<moment.day, moment.tick>>

NameBefore(a, b) == a[1] < b[1] \/ (a[1] = b[1] /\ a[2] < b[2])

\* sorted(names)[:count]: the oldest names instead of the latest
FirstNames(names, count) ==
    {name \in names : Cardinality({earlier \in names : NameBefore(earlier, name)}) < count}

\* sorted(names)[-count:]
LastNames(names, count) ==
    {name \in names : Cardinality({later \in names : NameBefore(name, later)}) < count}

\* the backup files after the copy of tasks.json to the backup named by the
\* moment, which replaces a backup of that name
CopyToBackup(dir, moment) ==
    {backup \in dir.backups : backup.name # BackupName(moment)}
        \cup {[name |-> BackupName(moment), content |-> Get(dir.file)]}

\* save_tasks on a data directory whose backup files are kept with their
\* content, each a name and the content copied under it
save_tasks_files(dir, list, moment) ==
    LET copied == CopyToBackup(dir, moment)
        names == {backup.name : backup \in copied}
        backups == IF dir.file = None THEN dir.backups
                   ELSE IF Cardinality(copied) > KeptBackups
                        THEN {backup \in copied :
                                 backup.name \in LastNames(names, KeptBackups)}
                        ELSE copied
    IN [file |-> Some([updated_at |-> isoformat(moment),
                       tasks |-> [k \in 1..Len(list) |-> to_dict(list[k])]]),
        backups |-> backups]

\* save_tasks on a data directory whose backup files are known by their
\* names only
save_tasks(st, list, moment) ==
    LET dir == [file |-> st.file,
                backups |-> {[name |-> name, content |-> None] : name \in st.backups}]
        saved == save_tasks_files(dir, list, moment)
    IN [file |-> saved.file, backups |-> {backup.name : backup \in saved.backups}]

load_tasks(st, moment) ==
    IF st.file = None THEN <<>>
    ELSE [k \in 1..Len(Get(st.file).tasks) |-> from_dict(Get(st.file).tasks[k], moment)]

\* what a call gives back: a value, or the error it raised
Returned(value) == [raised |-> FALSE, value |-> value]

Raised == [raised |-> TRUE, value |-> None]

\* get_task_by_id without the refusal of a shared prefix: the first task
\* whose id starts with the text is returned
get_task_by_idFirstPrefix(st, task_id, moment) ==
    LET loaded == load_tasks(st, moment)
        prefixed == {k \in 1..Len(loaded) : startswith(loaded[k].id, task_id)}
    IN IF prefixed # {} THEN Returned(Some(loaded[Min(prefixed)])) ELSE Returned(None)

get_task_by_id(st, task_id, moment) ==
    LET loaded == load_tasks(st, moment)
        exact == {k \in 1..Len(loaded) : loaded[k].id = task_id}
        IsMatching(task) == startswith(task.id, task_id)
        matching == SelectSeq(loaded, IsMatching)
    IN IF exact # {} THEN Returned(Some(loaded[Min(exact)]))
       ELSE IF Len(matching) = 1 THEN Returned(Some(matching[1]))
       ELSE IF Len(matching) > 1 THEN Raised
       ELSE Returned(None)

\* update_task without the search for the id: the task is always appended
update_taskAlwaysAppending(st, task, moment) ==
    [store |-> save_tasks(st, Append(load_tasks(st, moment), task), moment),
     task |-> task]

\* gives the store after the call and the caller's task object after it
update_task(st, task, moment) ==
    LET loaded == load_tasks(st, moment)
        found == {k \in 1..Len(loaded) : loaded[k].id = task.id}
        touched == [task EXCEPT !.updated_at = moment]
    IN IF found # {}
       THEN [store |-> save_tasks(st, [loaded EXCEPT ![Min(found)] = touched], moment),
             task |-> touched]
       ELSE [store |-> save_tasks(st, Append(loaded, task), moment),
             task |-> task]

delete_task(st, task_id, moment) ==
    LET IsKept(task) == task.id # task_id /\ ~startswith(task.id, task_id)
    IN save_tasks(st, SelectSeq(load_tasks(st, moment), IsKept), moment)

(***************************************************************************)
(* ai/claude_client.py: the rate limiter's configuration and construction. *)
(***************************************************************************)
DefaultConfig ==
    [max_retries |-> 5, base_delay |-> 1000, max_delay |-> 60000,
     exponential_base |-> 2, jitter |-> TRUE]

RateLimiter(config) ==
    [config |-> config, retry_count |-> 0, total_retries |-> 0, last_retry_time |-> None]

\* exponential_base ** attempt
RECURSIVE Pow(_, _)
Pow(base, exponent) == IF exponent = 0 THEN 1 ELSE base * Pow(base, exponent - 1)

\* min(a, b)
Smaller(a, b) == IF a <= b THEN a ELSE b

\* delays are thousandths of a second; roll is random.random() in thousandths
calculate_delay(config, attempt, roll) ==
    LET delay == Smaller(config.base_delay * Pow(config.exponential_base, attempt),
                         config.max_delay)
    IN IF config.jitter THEN (delay * (500 + roll)) \div 1000 ELSE delay

\* the errors of the anthropic package: RateLimitError is an APIStatusError,
\* an APIStatusError is an APIError
IsAPIStatusError(error) == error.class \in {"RateLimitError", "APIStatusError"}

\* should_retry with the count compared by > in place of >=
should_retryOneMore(lim, error) ==
    IF lim.retry_count > lim.config.max_retries THEN FALSE
    ELSE IF error.class = "RateLimitError" THEN TRUE
    ELSE IsAPIStatusError(error) /\ error.status_code \in {429, 529}

should_retry(lim, error) ==
    IF lim.retry_count >= lim.config.max_retries THEN FALSE
    ELSE IF error.class = "RateLimitError" THEN TRUE
    ELSE IsAPIStatusError(error) /\ error.status_code \in {429, 529}

\* gives the limiter after the call and the delay slept and returned
wait_and_retry(lim, roll, moment) ==
    [limiter |-> [lim EXCEPT !.retry_count = @ + 1,
                             !.total_retries = @ + 1,
                             !.last_retry_time = Some(moment)],
     delay |-> calculate_delay(lim.config, lim.retry_count, roll)]

reset(lim) == [lim EXCEPT !.retry_count = 0]

\* no send_message call yet
NoCall == [state |-> "idle", requests |-> 0, waits |-> 0, delay |-> None]

(***************************************************************************)
(* The task collection and the operations on it.                           *)
(***************************************************************************)
Midnight == [day |-> 0, tick |-> 0]

\* the line the collection's tasks are parsed from: "fix"
SpecLines == { <<102, 105, 120>> }

\* the hours the user asks a recommendation for: left out (the default)
SpecBudgets == {None}

StatusInputs == {"NEW", "DONE", "CANCELLED"}

TaskIndex == 1..Len(tasks)

ItemIds(items) == {items[k].task.id : k \in 1..Len(items)}

\* one run of recommend_for_today, with the lists it builds on the way
RecommendTrace(all_tasks, hours, cap, clock) ==
    LET prioritized == prioritize_tasks(all_tasks, clock)
    IN [hours |-> hours,
        prioritized |-> prioritized,
        available |-> filter_available_tasks(prioritized, all_tasks),
        result |-> recommend_for_today(all_tasks, hours, cap, clock)]

\* the ids a run drops because of an unfinished dependency
DroppedForDependency(all_tasks) ==
    {all_tasks[k].id : k \in {j \in 1..Len(all_tasks) :
        IsActive(all_tasks[j]) /\ BlockingDeps(all_tasks[j], all_tasks) # {}}}

\* the number of dependency entries of the whole collection
RECURSIVE DependencyCount(_)
DependencyCount(all_tasks) ==
    IF all_tasks = <<>> THEN 0
    ELSE Cardinality(all_tasks[1].deps) + DependencyCount(Tail(all_tasks))

\* cli add: a line is parsed and the task joins the collection
AddTask(line) ==
    /\ Len(tasks) < MaxTasks
    /\ tasks' = tasks \o parse_task_list(line, Len(tasks) + 1)
    /\ rec' = None
    /\ wasBlocked' = {}
    /\ UNCHANGED <<maxTasks, now, scored, parsed, store, answer, limiter, sending>>

\* cli status: a task gets a new status
SetStatus(i, s) ==
    /\ tasks[i].status # s
    /\ tasks' = [tasks EXCEPT ![i].status = s]
    /\ rec' = None
    /\ wasBlocked' = IF s = "DONE" THEN wasBlocked ELSE {}
    /\ UNCHANGED <<maxTasks, now, scored, parsed, store, answer, limiter, sending>>

\* a dependency id enters a task's list (Task.from_dict reads the list as stored)
AddDependency(i, dep_id) ==
    /\ dep_id \notin tasks[i].deps
    /\ DependencyCount(tasks) < MaxDeps
    /\ tasks' = [tasks EXCEPT ![i].deps = @ \cup {dep_id}]
    /\ rec' = None
    /\ wasBlocked' = {}
    /\ UNCHANGED <<maxTasks, now, scored, parsed, store, answer, limiter, sending>>

\* a recommend that sorts the caller's list instead of its own
RecommendSortingInPlace(hours) ==
    /\ rec' = Some(RecommendTrace(tasks, hours, maxTasks, now))
    /\ tasks' = LET sorted == SortByScoreDesc([k \in 1..Len(tasks) |->
                                                  ScoredItem(tasks[k], tasks, now)])
                IN [k \in 1..Len(tasks) |-> sorted[k].task]
    /\ wasBlocked' = wasBlocked \cup DroppedForDependency(tasks)
    /\ UNCHANGED <<maxTasks, now, scored, parsed, store, answer, limiter, sending>>

\* cli recommend --hours
Recommend(hours) ==
    /\ rec' = Some(RecommendTrace(tasks, hours, maxTasks, now))
    /\ wasBlocked' = wasBlocked \cup DroppedForDependency(tasks)
    /\ UNCHANGED <<tasks, maxTasks, now, scored, parsed, store, answer, limiter, sending>>

Init ==
    /\ tasks = <<>>
    /\ maxTasks = MAX_RECOMMENDED_TASKS
    /\ now = Midnight
    /\ rec = None
    /\ wasBlocked = {}
    /\ scored = None
    /\ parsed = <<>>
    /\ store = EmptyStore
    /\ answer = None
    /\ limiter = RateLimiter(DefaultConfig)
    /\ sending = NoCall

Next ==
    \/ \E line \in SpecLines : AddTask(line)
    \/ \E i \in TaskIndex, s \in StatusInputs : SetStatus(i, s)
    \/ \E i \in TaskIndex, dep_id \in 1..MaxTasks : AddDependency(i, dep_id)
    \/ \E hours \in SpecBudgets : Recommend(hours)

Spec == Init /\ [][Next]_vars

(***************************************************************************)
(* The selector as a function of the collection, the budget and the cap.   *)
(***************************************************************************)
SelPriorities == {"HIGH", "LOW"}

SelEstimates == {None, Some(0), Some(1), Some(3)}

SelBudgets == {None, Some(-1), Some(0), Some(2), Some(4)}

SelCaps == (0..MaxCap) \cup {MAX_RECOMMENDED_TASKS}

SelShapes == [priority : SelPriorities, est : SelEstimates]

SelTask(id, shape) ==
    [NewTask(id) EXCEPT !.priority = shape.priority, !.est = shape.est]

SelCollections ==
    UNION {{[k \in 1..n |-> SelTask(k, shapes[k])] : shapes \in [1..n -> SelShapes]} :
              n \in 0..MaxSelTasks}

InitSelect ==
    /\ tasks \in SelCollections
    /\ maxTasks \in SelCaps
    /\ now = Midnight
    /\ rec = None
    /\ wasBlocked = {}
    /\ scored = None
    /\ parsed = <<>>
    /\ store = EmptyStore
    /\ answer = None
    /\ limiter = RateLimiter(DefaultConfig)
    /\ sending = NoCall

NextSelect == \E hours \in SelBudgets : Recommend(hours)

SpecSelect == InitSelect /\ [][NextSelect]_vars

(***************************************************************************)
(* ai/classifier.py.  A classification result is the dictionary the client *)
(* returns: a key it lacks is None here.  task_type and complexity are     *)
(* given by the member whose value the string equals, any other string as  *)
(* itself; confidence is in thousandths; estimated_hours is a number       *)
(* [num |-> TRUE, v |-> hours] or some text [num |-> FALSE, v |-> 0].      *)
(***************************************************************************)
\* result.get('task_type', ...) and the loop over TaskType
AppliedTaskType(task, result) ==
    LET task_type_str == IF result.task_type = None THEN "UNKNOWN" ELSE Get(result.task_type)
    IN IF task_type_str \in TaskType THEN task_type_str ELSE task.task_type

\* result.get('complexity', ...) and the loop over Complexity
AppliedComplexity(task, result) ==
    LET complexity_str == IF result.complexity = None THEN "MEDIUM" ELSE Get(result.complexity)
    IN IF complexity_str \in Complexity THEN complexity_str ELSE task.complexity

\* result.get('priority', 3) and the chain of comparisons
AppliedPriority(result) ==
    LET priority_value == IF result.priority = None THEN 3 ELSE Get(result.priority)
    IN IF priority_value = 5 THEN "CRITICAL"
       ELSE IF priority_value = 4 THEN "HIGH"
       ELSE IF priority_value = 3 THEN "MEDIUM"
       ELSE IF priority_value = 2 THEN "LOW"
       ELSE "BACKLOG"

\* result.get('confidence', 0.0)
AppliedConfidence(result) ==
    IF result.confidence = None THEN 0 ELSE Get(result.confidence)

NoExtractedInfo ==
    [estimated_hours |-> None, key_terms |-> <<>>, related_systems |-> <<>>,
     urgency_keywords |-> <<>>]

\* result.get('extracted_info', {})
ExtractedInfo(result) ==
    IF result.extracted_info = None THEN NoExtractedInfo ELSE Get(result.extracted_info)

\* if estimated_hours: a number other than 0, or any text
EstimateGiven(result) ==
    LET estimated_hours == ExtractedInfo(result).estimated_hours
    IN estimated_hours # None
       /\ (~Get(estimated_hours).num \/ Get(estimated_hours).v # 0)

\* float(estimated_hours) raises ValueError on a text that is no number
ApplyRaises(result) ==
    EstimateGiven(result) /\ ~Get(ExtractedInfo(result).estimated_hours).num

\* _apply_classification: the task as the call leaves it, also when it raises
apply_classification(task, result) ==
    LET extracted_info == ExtractedInfo(result)
        classified == [task EXCEPT
                          !.task_type = AppliedTaskType(task, result),
                          !.complexity = AppliedComplexity(task, result),
                          !.priority = AppliedPriority(result),
                          !.conf = AppliedConfidence(result)]
    IN IF ApplyRaises(result) THEN classified
       ELSE [classified EXCEPT
                !.est = IF EstimateGiven(result)
                        THEN Some(Get(extracted_info.estimated_hours).v) ELSE @,
                !.key_terms = IF extracted_info.key_terms # <<>>
                              THEN extracted_info.key_terms ELSE @,
                !.related_systems = IF extracted_info.related_systems # <<>>
                                    THEN extracted_info.related_systems ELSE @,
                !.ai_recommendations =
                    Some([reasoning |-> result.reasoning,
                          urgency_keywords |-> extracted_info.urgency_keywords,
                          classification_result |-> result])]

\* classify_single: outcome is None when structured_output raises, else the result
classify_single(task, outcome) ==
    IF outcome = None THEN task ELSE apply_classification(task, Get(outcome))

(***************************************************************************)
(* The scorer on a loaded collection: task 1 has a text, a deadline and a  *)
(* classification, the others are the tasks that may depend on it.         *)
(***************************************************************************)
\* "fix", "Srochno fix", "SROCHNO asap", "nemedlenno" (Cyrillic where transliterated)
ScoreLines ==
    { <<102, 105, 120>>,
      <<1057, 1088, 1086, 1095, 1085, 1086, 32, 102, 105, 120>>,
      <<1057, 1056, 1054, 1063, 1053, 1054, 32, 97, 115, 97, 112>>,
      <<1085, 1077, 1084, 1077, 1076, 1083, 1077, 1085, 1085, 1086>> }

ScoreDeadlineDays == {0, 1, 2, 4, 8, 15}

Ticks == 0..(TicksPerDay - 1)

ScoreDeadlines ==
    {None} \cup {Some([day |-> d, tick |-> t]) : d \in ScoreDeadlineDays, t \in Ticks}

EmptyResult ==
    [task_type |-> None, complexity |-> None, priority |-> None, confidence |-> None,
     extracted_info |-> None, reasoning |-> <<>>]

\* what the client returns: a confidence of 0.853 with an estimate of 3 hours
\* and the key term "flk"; a confidence of 85 (a percentage); of -2.0; a
\* result without any key; an estimate that is a text and no number
ScoreResults ==
    { [EmptyResult EXCEPT !.task_type = Some("BUG"), !.priority = Some(5),
                          !.confidence = Some(853),
                          !.extracted_info =
                              Some([NoExtractedInfo EXCEPT
                                       !.estimated_hours = Some([num |-> TRUE, v |-> 3]),
                                       !.key_terms = << <<102, 108, 107>> >>])],
      [EmptyResult EXCEPT !.priority = Some(5), !.confidence = Some(85000)],
      [EmptyResult EXCEPT !.priority = Some(1), !.confidence = Some(-2000)],
      EmptyResult,
      [EmptyResult EXCEPT !.priority = Some(5), !.confidence = Some(900),
                          !.extracted_info =
                              Some([NoExtractedInfo EXCEPT
                                       !.estimated_hours = Some([num |-> FALSE, v |-> 0])])] }

FocalTasks ==
    {[Get(parse_single_task(line, 1)) EXCEPT !.deadline = deadline, !.deps = deps] :
        line \in ScoreLines, deadline \in ScoreDeadlines, deps \in {{}, {2}}}

OtherShapes == [status : {"NEW", "DONE"}, deps : {{}, {1}}]

ScoreCollections ==
    UNION {{<<focal>> \o [k \in 1..n |->
                            [NewTask(k + 1) EXCEPT !.status = shapes[k].status,
                                                   !.deps = shapes[k].deps]] :
               focal \in FocalTasks, shapes \in [1..n -> OtherShapes]} :
              n \in 0..(MaxTasks - 1)}

\* classify_request picks the tasks of unknown type or confidence 0
Unclassified(task) == task.task_type = "UNKNOWN" \/ task.conf = 0

\* classification of task 1: classify_single with what the client answers
Classify(outcome) ==
    /\ Unclassified(tasks[1])
    /\ tasks' = [tasks EXCEPT ![1] = classify_single(@, outcome)]
    /\ scored' = None
    /\ UNCHANGED <<maxTasks, now, rec, wasBlocked, parsed, store, answer, limiter, sending>>

\* the wall clock moves on within the day
Tick ==
    /\ now.tick + 1 < TicksPerDay
    /\ now' = [now EXCEPT !.tick = @ + 1]
    /\ scored' = None
    /\ UNCHANGED <<tasks, maxTasks, rec, wasBlocked, parsed, store, answer, limiter, sending>>

\* calculate_score(tasks[i], tasks), with the five sub-scores it sums
Score(i) ==
    /\ scored' = Some([i |-> i,
                       subs |-> SubScores(tasks[i], tasks, now),
                       score |-> calculate_score(tasks[i], tasks, now)])
    /\ UNCHANGED <<tasks, maxTasks, now, rec, wasBlocked, parsed, store, answer, limiter, sending>>

InitScore ==
    /\ tasks \in ScoreCollections
    /\ maxTasks = MAX_RECOMMENDED_TASKS
    /\ now = Midnight
    /\ rec = None
    /\ wasBlocked = {}
    /\ scored = None
    /\ parsed = <<>>
    /\ store = EmptyStore
    /\ answer = None
    /\ limiter = RateLimiter(DefaultConfig)
    /\ sending = NoCall

NextScore ==
    \/ \E result \in ScoreResults : Classify(Some(result))
    \/ Classify(None)
    \/ Tick
    \/ \E i \in TaskIndex : Score(i)

SpecScore == InitScore /\ [][NextScore]_vars

(***************************************************************************)
(* The parser on pasted text: cli add joins the lines typed and hands the  *)
(* text to parse_task_list.                                                *)
(***************************************************************************)
\* a line of 101 Cyrillic letters without a period
LongLine == [k \in 1..(TitleCap + 1) |-> 1103]

\* the texts pasted: "fix", "1. Fix bug . now", ".env", "2) Fix v1.2", "3.",
\* "  4. a", the long line, nothing, "SROCHNO asap",
\* "4. Zadacha Saidy https://jira.example.com/browse/AN-1418" and the two lines
\* "fix" and "5. asap" with an empty line between, "Fix ASAP",
\* "zadacha Potapova", "peredat Ivanu AN-1 AN-1",
\* "see https://bugs.io/browse/AN-12 ok", "HTTPS://jira.x.ru/browse/AB-1",
\* the two lines "3." and "1. Fix bug . now" (Cyrillic where transliterated)
ParseTexts ==
    { <<102, 105, 120>>,
      <<49, 46, 32, 70, 105, 120, 32, 98, 117, 103, 32, 46, 32, 110, 111, 119>>,
      <<46, 101, 110, 118>>,
      <<50, 41, 32, 70, 105, 120, 32, 118, 49, 46, 50>>,
      <<51, 46>>,
      <<32, 32, 52, 46, 32, 97>>,
      LongLine,
      <<>>,
      <<1057, 1056, 1054, 1063, 1053, 1054, 32, 97, 115, 97, 112>>,
      <<52, 46, 32, 1047, 1072, 1076, 1072, 1095, 1072, 32, 1057, 1072, 1080, 1076, 1099,
        32, 104, 116, 116, 112, 115, 58, 47, 47, 106, 105, 114, 97, 46, 101, 120, 97,
        109, 112, 108, 101, 46, 99, 111, 109, 47, 98, 114, 111, 119, 115, 101, 47, 65,
        78, 45, 49, 52, 49, 56>>,
      <<102, 105, 120, 10, 10, 53, 46, 32, 97, 115, 97, 112>>,
      <<70, 105, 120, 32, 65, 83, 65, 80>>,
      <<1079, 1072, 1076, 1072, 1095, 1072, 32, 1055, 1086, 1090, 1072, 1087, 1086, 1074,
        1072>>,
      <<1087, 1077, 1088, 1077, 1076, 1072, 1090, 1100, 32, 1048, 1074, 1072, 1085, 1091,
        32, 65, 78, 45, 49, 32, 65, 78, 45, 49>>,
      <<115, 101, 101, 32, 104, 116, 116, 112, 115, 58, 47, 47, 98, 117, 103, 115, 46, 105,
        111, 47, 98, 114, 111, 119, 115, 101, 47, 65, 78, 45, 49, 50, 32, 111, 107>>,
      <<72, 84, 84, 80, 83, 58, 47, 47, 106, 105, 114, 97, 46, 120, 46, 114, 117, 47, 98,
        114, 111, 119, 115, 101, 47, 65, 66, 45, 49>>,
      <<51, 46, 10, 49, 46, 32, 70, 105, 120, 32, 98, 117, 103, 32, 46, 32, 110, 111, 119>> }

\* cli add: the pasted text is parsed (parse_task_list, its calls kept) and the
\* tasks join the collection
ParseTaskList(text) ==
    \E calls \in {ParseCalls(SplitLines(Strip(text)), Len(tasks) + 1)} :
        LET result == AppendedTasks(calls)
        IN /\ Len(tasks) + Len(result) <= MaxParsed
           /\ tasks' = tasks \o result
           /\ parsed' = Some([text |-> text, calls |-> calls, tasks |-> result])
           /\ rec' = None
           /\ wasBlocked' = {}
           /\ UNCHANGED <<maxTasks, now, scored, store, answer, limiter, sending>>

NextParse == \E text \in ParseTexts : ParseTaskList(text)

SpecParse == Init /\ [][NextParse]_vars

(***************************************************************************)
(* The task store and the calls on it: core/storage.py.                    *)
(***************************************************************************)
\* ids of stored tasks: "a", "ab", "ac", "b"
StoreIds == { <<97>>, <<97, 98>>, <<97, 99>>, <<98>> }

\* the ids asked for: the stored ones, "", "abc"
StoreQueries == StoreIds \cup { <<>>, <<97, 98, 99>> }

\* titles: "fix", "doc"
StoreTitles == { <<102, 105, 120>>, <<100, 111, 99>> }

\* a Task(id=..., title=...) whose metadata was last written at the moment
StoreTask(id, title, moment) == Stamped([NewTask(id) EXCEPT !.title = title], moment)

\* lists handed to save_tasks: none, and two tasks under one id
StoreLists ==
    { <<>>,
      <<StoreTask(<<97>>, <<102, 105, 120>>, Midnight),
        StoreTask(<<97>>, <<100, 111, 99>>, Midnight)>> }

SaveTasks(list) ==
    /\ store' = save_tasks(store, list, now)
    /\ answer' = Some([op |-> "save_tasks", arg |-> list, result |-> Returned(None)])
    /\ UNCHANGED <<tasks, maxTasks, now, rec, wasBlocked, scored, parsed, limiter, sending>>

GetTaskById(task_id) ==
    /\ answer' = Some([op |-> "get_task_by_id", arg |-> task_id,
                       result |-> get_task_by_id(store, task_id, now)])
    /\ UNCHANGED <<tasks, maxTasks, now, rec, wasBlocked, scored, parsed, store, limiter,
                   sending>>

\* answer.result holds the caller's task object as the call leaves it
UpdateTask(task) ==
    \E done \in {update_task(store, task, now)} :
        /\ Len(Get(done.store.file).tasks) <= MaxStored
        /\ store' = done.store
        /\ answer' = Some([op |-> "update_task", arg |-> task,
                           result |-> Returned(Some(done.task))])
        /\ UNCHANGED <<tasks, maxTasks, now, rec, wasBlocked, scored, parsed, limiter,
                       sending>>

DeleteTask(task_id) ==
    /\ store' = delete_task(store, task_id, now)
    /\ answer' = Some([op |-> "delete_task", arg |-> task_id, result |-> Returned(None)])
    /\ UNCHANGED <<tasks, maxTasks, now, rec, wasBlocked, scored, parsed, limiter, sending>>

NextStore ==
    \/ \E list \in StoreLists : SaveTasks(list)
    \/ \E task_id \in StoreQueries : GetTaskById(task_id)
    \/ \E id \in StoreIds, title \in StoreTitles :
           UpdateTask(StoreTask(id, title, Midnight))
    \/ \E task_id \in StoreQueries : DeleteTask(task_id)
    \/ Tick

SpecStore == Init /\ [][NextStore]_vars

(***************************************************************************)
(* The backup files of the data directory: save_tasks of core/storage.py   *)
(* on directories left by earlier sessions.                                *)
(***************************************************************************)
\* the moment of the save made the given number of days before the session
DaysBefore(days) == [day |-> 0 - days, tick |-> 0]

\* the directory after daily saves of an empty list which left the given
\* number of backups
EarlierDirectory(count) ==
    [file |-> Some([updated_at |-> isoformat(DaysBefore(1)), tasks |-> <<>>]),
     backups |-> {[name |-> BackupName(DaysBefore(days)),
                   content |-> [updated_at |-> isoformat(DaysBefore(days + 1)),
                                tasks |-> <<>>]] : days \in 1..count}]

\* the directories a session starts on: a new one, one with a backup to
\* spare, a full one
BackupDirectories ==
    {EmptyStore, EarlierDirectory(KeptBackups - 1), EarlierDirectory(KeptBackups)}

\* lists handed to save_tasks: none, one task, two tasks under one id
BackupLists ==
    StoreLists \cup { <<StoreTask(<<98>>, <<102, 105, 120>>, Midnight)>> }

SaveTasksFiles(list) ==
    /\ store' = save_tasks_files(store, list, now)
    /\ answer' = Some([op |-> "save_tasks", arg |-> list, result |-> Returned(None)])
    /\ UNCHANGED <<tasks, maxTasks, now, rec, wasBlocked, scored, parsed, limiter, sending>>

InitBackup ==
    /\ tasks = <<>>
    /\ maxTasks = MAX_RECOMMENDED_TASKS
    /\ now = Midnight
    /\ rec = None
    /\ wasBlocked = {}
    /\ scored = None
    /\ parsed = <<>>
    /\ store \in BackupDirectories
    /\ answer = None
    /\ limiter = RateLimiter(DefaultConfig)
    /\ sending = NoCall

NextBackup ==
    \/ \E list \in BackupLists : SaveTasksFiles(list)
    \/ Tick

SpecBackup == InitBackup /\ [][NextBackup]_vars

(***************************************************************************)
(* The Claude client's retry loop: ai/claude_client.py.                    *)
(***************************************************************************)
\* RateLimiterConfig values a client is built with
RetryConfigs ==
    {[max_retries |-> r, base_delay |-> 1000, max_delay |-> 3000,
      exponential_base |-> 2, jitter |-> j] : r \in {0, MaxRetries}, j \in BOOLEAN}

\* values of random.random(), in thousandths
RandomRolls == {0, 500, 999}

\* what client.messages.create raises
RequestErrors ==
    {[class |-> "RateLimitError", status_code |-> 429],
     [class |-> "APIStatusError", status_code |-> 529],
     [class |-> "APIStatusError", status_code |-> 500],
     [class |-> "APIConnectionError", status_code |-> 0]}

CalculateDelay(attempt, roll) ==
    /\ sending.state # "requesting"
    /\ answer' = Some([op |-> "calculate_delay", arg |-> attempt,
                       result |-> Returned(calculate_delay(limiter.config, attempt, roll))])
    /\ UNCHANGED <<tasks, maxTasks, now, rec, wasBlocked, scored, parsed, store, limiter,
                   sending>>

\* send_message with the limiter reset at the start of the call
SendMessageResetting ==
    /\ sending.state # "requesting"
    /\ limiter.total_retries < MaxTotalRetries
    /\ limiter' = reset(limiter)
    /\ sending' = [state |-> "requesting", requests |-> 0, waits |-> 0, delay |-> None]
    /\ answer' = None
    /\ UNCHANGED <<tasks, maxTasks, now, rec, wasBlocked, scored, parsed, store>>

\* send_message up to its first request
SendMessage ==
    /\ sending.state # "requesting"
    /\ limiter.total_retries < MaxTotalRetries
    /\ sending' = [state |-> "requesting", requests |-> 0, waits |-> 0, delay |-> None]
    /\ answer' = None
    /\ UNCHANGED <<tasks, maxTasks, now, rec, wasBlocked, scored, parsed, store, limiter>>

\* the request is answered with a response: reset and return
RequestSucceeds ==
    /\ sending.state = "requesting"
    /\ limiter' = reset(limiter)
    /\ sending' = [sending EXCEPT !.state = "returned", !.requests = @ + 1]
    /\ UNCHANGED <<tasks, maxTasks, now, rec, wasBlocked, scored, parsed, store, answer>>

\* the request raises: wait and go round the loop again, or raise
RequestFails(error, roll) ==
    /\ sending.state = "requesting"
    /\ IF IsAPIStatusError(error) /\ should_retry(limiter, error)
       THEN \E waited \in {wait_and_retry(limiter, roll, now)} :
                /\ limiter' = waited.limiter
                /\ sending' = [sending EXCEPT !.requests = @ + 1, !.waits = @ + 1,
                                              !.delay = Some(waited.delay)]
       ELSE /\ limiter' = limiter
            /\ sending' = [sending EXCEPT !.state = "raised", !.requests = @ + 1]
    /\ UNCHANGED <<tasks, maxTasks, now, rec, wasBlocked, scored, parsed, store, answer>>

Respond ==
    \/ RequestSucceeds
    \/ \E error \in RequestErrors, roll \in RandomRolls : RequestFails(error, roll)

InitRetry ==
    /\ tasks = <<>>
    /\ maxTasks = MAX_RECOMMENDED_TASKS
    /\ now = Midnight
    /\ rec = None
    /\ wasBlocked = {}
    /\ scored = None
    /\ parsed = <<>>
    /\ store = EmptyStore
    /\ answer = None
    /\ limiter \in {RateLimiter(config) : config \in RetryConfigs}
    /\ sending = NoCall

NextRetry ==
    \/ \E attempt \in 0..MaxAttempt, roll \in RandomRolls : CalculateDelay(attempt, roll)
    \/ SendMessage
    \/ RequestSucceeds
    \/ \E error \in RequestErrors, roll \in RandomRolls : RequestFails(error, roll)
    \/ Tick

\* every request is answered
SpecRetry == InitRetry /\ [][NextRetry]_vars /\ WF_vars(Respond)

(***************************************************************************)
(* Properties of the selector.                                             *)
(***************************************************************************)
LastRun == Get(rec)

Recommended == LastRun.result.recommended

Budget == LastRun.result.available_hours

\* a task's estimated hours, or the 2.0 default when it has none
StatedEstimate(task) == IF task.est = None THEN DefaultEstimate ELSE Get(task.est)

RECURSIVE StatedTotal(_)
StatedTotal(items) ==
    IF items = <<>> THEN 0
    ELSE StatedEstimate(items[1].task) + StatedTotal(Tail(items))

\* C1, as stated: under every budget, one of 0 or less included, the total
\* estimated time of the recommended tasks does not exceed the budget.
C1_AnyBudget == rec # None => StatedTotal(Recommended) <= Budget

\* C1, amended: under every budget of 0 or more, the total estimated time of the
\* recommended tasks does not exceed the budget.
C1_NonNegativeBudget ==
    rec # None /\ Budget >= 0 => StatedTotal(Recommended) <= Budget

\* a run that used its budget up and passed over a task that no longer fit
C1_Witness ==
    /\ rec # None
    /\ Budget > 0
    /\ StatedTotal(Recommended) = Budget
    /\ Len(Recommended) >= 2
    /\ Len(Recommended) < Len(LastRun.available)

\* C2: under every configured maximum M >= 0, no more than M tasks are recommended.
C2_AtMostMax == rec # None /\ maxTasks >= 0 => Len(Recommended) <= maxTasks

\* The greedy pass C9 describes, from item i on: an item is accepted if and only
\* if its time fits the remaining budget and fewer than cap items are accepted.
RECURSIVE GreedyPass(_, _, _, _, _)
GreedyPass(items, i, accepted, remaining, cap) ==
    IF i > Len(items) THEN accepted
    ELSE IF Estimated(items[i].task) <= remaining /\ Len(accepted) < cap
         THEN GreedyPass(items, i + 1, Append(accepted, items[i]),
                         remaining - Estimated(items[i].task), cap)
         ELSE GreedyPass(items, i + 1, accepted, remaining, cap)

\* C9: the selection is the result of one greedy pass over the available tasks in
\* ranking order, accepting a task iff it fits the remaining budget and fewer
\* than the maximum number of tasks have been accepted.
C9_GreedyPass ==
    rec # None => Recommended = GreedyPass(LastRun.available, 1, <<>>, Budget, maxTasks)

(***************************************************************************)
(* Properties of the ranking and of the availability filter.               *)
(***************************************************************************)
Candidates == ItemIds(LastRun.available)

\* C3: a task that lists another present task whose status is not Done is no
\* candidate; a task that is neither Done nor Cancelled and whose present
\* dependencies are all Done is a candidate, in every run of the filter,
\* whatever the statuses were in the runs before.
C3_DependencyGate ==
    rec # None =>
        \A k \in TaskIndex :
            /\ (\E j \in TaskIndex \ {k} :
                    tasks[j].id \in tasks[k].deps /\ tasks[j].status # "DONE")
                => tasks[k].id \notin Candidates
            /\ (/\ IsActive(tasks[k])
                /\ \A j \in TaskIndex :
                       tasks[j].id \in tasks[k].deps => tasks[j].status = "DONE")
                => tasks[k].id \in Candidates

\* a task an earlier run dropped for a dependency is a candidate of this run,
\* the dependency now Done
C3_Witness ==
    /\ rec # None
    /\ \E k \in TaskIndex :
           /\ tasks[k].id \in wasBlocked
           /\ tasks[k].id \in Candidates
           /\ \E j \in TaskIndex \ {k} :
                  tasks[j].id \in tasks[k].deps /\ tasks[j].status = "DONE"

\* C4: the ranking holds no Done and no Cancelled task, and every other task of
\* the collection exactly once.
C4_RankingMembers ==
    rec # None =>
        LET ranked == LastRun.prioritized
        IN /\ \A p \in 1..Len(ranked) : ranked[p].task.status \notin {"DONE", "CANCELLED"}
           /\ \A k \in TaskIndex :
                  tasks[k].status \notin {"DONE", "CANCELLED"} =>
                      Cardinality({p \in 1..Len(ranked) : ranked[p].task = tasks[k]}) = 1
           /\ \A p \in 1..Len(ranked) : \E k \in TaskIndex : ranked[p].task = tasks[k]

\* a ranking of a collection that holds a Done, a Cancelled and an open task
C4_Witness ==
    /\ rec # None
    /\ \E k \in TaskIndex : tasks[k].status = "DONE"
    /\ \E k \in TaskIndex : tasks[k].status = "CANCELLED"
    /\ Len(LastRun.prioritized) >= 1

(***************************************************************************)
(* Properties of the scorer.                                               *)
(***************************************************************************)
LastScore == Get(scored)

ScoredTask == tasks[LastScore.i]

\* C5: the composite score of every task the program can produce lies in
\* [0, 100] (it has one decimal place: the score is held in tenths)
C5_ScoreRange ==
    scored # None => LastScore.score \in 0..1000

\* the other tasks that are not Done and list the id among their dependencies
Dependents(task, all_tasks) ==
    {k \in 1..Len(all_tasks) :
        /\ all_tasks[k].id # task.id
        /\ all_tasks[k].status # "DONE"
        /\ task.id \in all_tasks[k].deps}

\* C6: the blocking sub-score of T is min(1.0, 0.3 x n), n the number of
\* other tasks that are not Done and list T's id, whatever T's own
\* dependency list contains; it is 0.0 exactly when n = 0
C6_BlockingByDependents ==
    scored # None =>
        LET n == Cardinality(Dependents(ScoredTask, tasks))
        IN /\ LastScore.subs.blocking = MinOf(1000, 300 * n)
           /\ (LastScore.subs.blocking = 0 <=> n = 0)

\* the deadline sub-score by the difference of the two dates
DeadlineByDate(task, clock) ==
    IF task.deadline = None THEN 300
    ELSE LET days == Get(task.deadline).day - clock.day
         IN IF days <= 0 THEN 1000
            ELSE IF days = 1 THEN 900
            ELSE IF days <= 3 THEN 800
            ELSE IF days <= 7 THEN 600
            ELSE IF days <= 14 THEN 400
            ELSE 200

\* C7: the deadline sub-score is a function of the whole-day difference
\* between the deadline's date and the current date, at whatever time of
\* day the deadline and the current moment fall
C7_DeadlineByDate ==
    scored # None => LastScore.subs.deadline = DeadlineByDate(ScoredTask, now)

\* C8: the urgency sub-score is min(1.0, 0.5 x count), count the number of
\* the parser's six keywords found in title + description + original_text
C8_SixKeywords ==
    scored # None =>
        LastScore.subs.urgency_keywords =
            MinOf(1000, 500 * Cardinality(FoundKeywords(TextToCheck(ScoredTask),
                                                        ParserUrgencyKeywords)))

(***************************************************************************)
(* Properties of the parser.                                               *)
(***************************************************************************)
\* the title as stated: up to the first period, or the first 100 characters
TitleAsStated(clean_text) ==
    IF \E k \in 1..Len(clean_text) : clean_text[k] = Period
    THEN SubSeq(clean_text, 1, RunNotIn(clean_text, 1, {Period}))
    ELSE SubSeq(clean_text, 1, MinOf(TitleCap, Len(clean_text)))

\* C10: the parsed task's title is the prefix-stripped text up to but
\* excluding the first period, or its first 100 characters when it has no
\* period (then never longer than 100); original_text is the input line
\* and description the prefix-stripped text
C10_TitleOfLine ==
    parsed # None =>
        \A k \in 1..Len(Get(parsed).calls) :
            LET call == Get(parsed).calls[k]
                clean_text == StripNumberPrefix(call.text)
            IN call.task # None =>
                /\ Get(call.task).title = TitleAsStated(clean_text)
                /\ Len(Get(call.task).title) <= TitleCap
                /\ Get(call.task).original_text = call.text
                /\ Get(call.task).description = clean_text

\* the calls of _parse_single_task of the last parse that returned a task
TaskCalls ==
    IF parsed = None THEN {}
    ELSE {k \in 1..Len(Get(parsed).calls) : Get(parsed).calls[k].task # None}

CallText(k) == Get(parsed).calls[k].text

CallTask(k) == Get(Get(parsed).calls[k].task)

\* "4. Zadacha Saidy https://jira.example.com/browse/AN-1418"
ScenarioLine ==
    <<52, 46, 32, 1047, 1072, 1076, 1072, 1095, 1072, 32, 1057, 1072, 1080, 1076, 1099,
      32, 104, 116, 116, 112, 115, 58, 47, 47, 106, 105, 114, 97, 46, 101, 120, 97,
      109, 112, 108, 101, 46, 99, 111, 109, 47, 98, 114, 111, 119, 115, 101, 47, 65,
      78, 45, 49, 52, 49, 56>>

\* where in the text a trigger word "ot" or "zadacha", in any letter case, is
\* followed by white space and a capitalised name: the places of the names
TriggeredNames(text) ==
    {name \in 1..Len(text) :
        /\ NameAt(text, name) > 0
        /\ \E t \in 1..2, at \in 1..name :
               /\ StartsWithAt(Lower(text), at, MentionTriggers[t])
               /\ RunIn(text, at + Len(MentionTriggers[t]), SpaceChars) >= 1
               /\ at + Len(MentionTriggers[t])
                     + RunIn(text, at + Len(MentionTriggers[t]), SpaceChars) = name}

MentionNames(task) == {task.mentions[k].name : k \in 1..Len(task.mentions)}

\* C11: a trigger word "zadacha" or "ot", in whatever letter case, followed by
\* a capitalised name yields a mention with that name; the scenario line
\* yields the mention {name: "Saidy", context: author}
C11_MentionAnyCase ==
    \A k \in TaskCalls :
        LET clean_text == StripNumberPrefix(CallText(k))
        IN /\ \A name \in TriggeredNames(clean_text) :
                  SubSeq(clean_text, name, name + NameAt(clean_text, name) - 1)
                      \in MentionNames(CallTask(k))
           /\ CallText(k) = ScenarioLine =>
                  \E m \in 1..Len(CallTask(k).mentions) :
                      /\ CallTask(k).mentions[m].name = <<1057, 1072, 1080, 1076, 1099>>
                      /\ CallTask(k).mentions[m].mention_context
                             = Some(<<1072, 1074, 1090, 1086, 1088>>)

\* a keyword of the six occurs in the text, letter case aside
HasUrgencyKeyword(text) ==
    \E w \in 1..Len(ParserUrgencyKeywords) :
        \E at \in 1..(Len(text) - Len(ParserUrgencyKeywords[w]) + 1) :
            \A j \in 1..Len(ParserUrgencyKeywords[w]) :
                LowerChar(text[at + j - 1]) = ParserUrgencyKeywords[w][j]

\* C12: the parsed task's priority is High if the prefix-stripped text
\* contains one of the six urgency keywords in any letter case, otherwise
\* the default Medium; the parser sets no other priority
C12_PriorityOfLine ==
    \A k \in TaskCalls :
        CallTask(k).priority =
            IF HasUrgencyKeyword(StripNumberPrefix(CallText(k))) THEN "HIGH" ELSE "MEDIUM"

\* a line with a keyword in capitals only was parsed to High, and another
\* line without a keyword to Medium
C12_Witness ==
    /\ \E k \in TaskCalls :
           /\ CallTask(k).priority = "HIGH"
           /\ FoundKeywords(CallText(k), ParserUrgencyKeywords) = {}
    /\ \E i \in 1..Len(tasks) : tasks[i].priority = "MEDIUM"

(***************************************************************************)
(* Properties of the classifier's application.                             *)
(***************************************************************************)
\* the result has no estimated_hours
NoEstimate(result) ==
    result.extracted_info = None \/ Get(result.extracted_info).estimated_hours = None

\* every field the result lacks has after the call the value it had before
MissingKept(before, after, result) ==
    /\ result.task_type = None => after.task_type = before.task_type
    /\ result.complexity = None => after.complexity = before.complexity
    /\ result.priority = None => after.priority = before.priority
    /\ result.confidence = None => after.conf = before.conf
    /\ NoEstimate(result) => after.est = before.est
    /\ (result.extracted_info = None \/ Get(result.extracted_info).key_terms = <<>>)
           => after.key_terms = before.key_terms
    /\ (result.extracted_info = None \/ Get(result.extracted_info).related_systems = <<>>)
           => after.related_systems = before.related_systems

\* C13: applying a classifier result that lacks a field leaves that field of
\* the task at the value it had before the call
C13_MissingFieldsKept ==
    [][\A result \in ScoreResults :
           Classify(Some(result)) => MissingKept(tasks[1], tasks'[1], result)]_vars

\* the classification fields of a task
ClassificationFields(task) ==
    <<task.task_type, task.complexity, task.priority, task.conf, task.est>>

\* C14: when classification fails (the client raises, or the result cannot
\* be applied completely) classify_single returns the task with task_type,
\* complexity, priority, confidence and estimated hours as before the call
C14_FailureLeavesFields ==
    [][(\/ Classify(None)
        \/ \E result \in ScoreResults : ApplyRaises(result) /\ Classify(Some(result)))
           => ClassificationFields(tasks'[1]) = ClassificationFields(tasks[1])]_vars

LastCallIs(op) == answer # None /\ Get(answer).op = op

DistinctIds(list) ==
    \A j, k \in 1..Len(list) : list[j].id = list[k].id => j = k

IdsOf(list) == {list[k].id : k \in 1..Len(list)}

\* what update_task(t) leaves, given the stored tasks before and after it
\* and the caller's task t as the call leaves it
UpsertHolds(before, after, t) ==
    /\ Cardinality({k \in 1..Len(after) : after[k].id = t.id}) = 1
    /\ \A k \in 1..Len(after) : after[k].id = t.id => after[k] = t
    /\ \A k \in 1..Len(before) :
           before[k].id # t.id => k <= Len(after) /\ after[k] = before[k]
    /\ Len(after) = IF t.id \in IdsOf(before) THEN Len(before) ELSE Len(before) + 1

\* C16: after update_task(t) on a store whose task ids are distinct,
\* load_tasks holds exactly one task with t's id and it carries t's fields;
\* every other stored task is unchanged and keeps its position; the number
\* of stored tasks grows by one if the id was new and is unchanged otherwise.
C16_UpdateTaskUpserts ==
    [][(answer' # None /\ Get(answer').op = "update_task"
        /\ DistinctIds(load_tasks(store, now)))
       => UpsertHolds(load_tasks(store, now), load_tasks(store', now'),
                      Get(Get(answer').result.value))]_vars

\* a call replaced the first of several stored tasks and gave it a new title
\* and a new time of update
C16_Witness ==
    /\ LastCallIs("update_task")
    /\ LET stored == load_tasks(store, now)
           t == Get(Get(answer).result.value)
       IN /\ Len(stored) >= 2
          /\ DistinctIds(stored)
          /\ stored[1] = t
          /\ t.updated_at # Get(answer).arg.updated_at


\* the stored tasks without those whose id equals the given one
WithoutId(list, task_id) ==
    LET IsOther(task) == task.id # task_id
    IN SelectSeq(list, IsOther)

\* C17: delete_task(id) removes the task whose id equals the given id and no
\* other task; when no stored task has that id, the stored tasks are the
\* same before and after the call.
C17_DeleteByEqualId ==
    [][(answer' # None /\ Get(answer').op = "delete_task")
       => load_tasks(store', now')
              = WithoutId(load_tasks(store, now), Get(answer').arg)]_vars


\* what get_task_by_id(s) gives on the stored tasks
LookupHolds(stored, s, result) ==
    LET exact == {k \in 1..Len(stored) : stored[k].id = s}
        prefixed == {k \in 1..Len(stored) : startswith(stored[k].id, s)}
    IN /\ exact # {} =>
           /\ ~result.raised
           /\ result.value # None
           /\ Get(result.value) \in {stored[k] : k \in exact}
       /\ (exact = {} /\ Cardinality(prefixed) = 1) =>
           /\ ~result.raised
           /\ result.value \in {Some(stored[k]) : k \in prefixed}
       /\ (exact = {} /\ Cardinality(prefixed) > 1) => result.raised
       /\ prefixed = {} => result = Returned(None)
       /\ (~result.raised /\ result.value # None) =>
           startswith(Get(result.value).id, s)

\* C18: get_task_by_id(s) returns the task whose id equals s when one
\* exists; otherwise the single task whose id starts with s; it raises an
\* error when no id equals s and several ids start with s; it returns None
\* when no id starts with s.  It never returns a task whose id does not
\* start with s.
C18_LookupByIdOrPrefix ==
    LastCallIs("get_task_by_id")
        => LookupHolds(load_tasks(store, now), Get(answer).arg, Get(answer).result)

\* a lookup by a text that no id equals and two stored ids start with, next
\* to a stored id that does not start with it, was refused
C18_Witness ==
    /\ LastCallIs("get_task_by_id")
    /\ Get(answer).result.raised
    /\ Get(answer).arg # <<>>
    /\ LET stored == load_tasks(store, now)
       IN /\ DistinctIds(stored)
          /\ \E k \in 1..Len(stored) : ~startswith(stored[k].id, Get(answer).arg)


(***************************************************************************)
(* The Claude client.                                                      *)
(***************************************************************************)
\* C19: for every attempt number >= 0 and every rate-limiter configuration
\* the delay calculate_delay returns is at most max_delay; with jitter
\* disabled it equals min(base_delay * exponential_base^attempt, max_delay).
C19_DelayAtMostMax ==
    LastCallIs("calculate_delay") =>
        LET config == limiter.config
            delay == Get(answer).result.value
        IN /\ delay <= config.max_delay
           /\ ~config.jitter =>
                  delay = Smaller(config.base_delay
                                      * Pow(config.exponential_base, Get(answer).arg),
                                  config.max_delay)


\* a rate-limit or overload error: status 429 or 529
IsRateLimit(error) == IsAPIStatusError(error) /\ error.status_code \in {429, 529}

RetryBounded ==
    /\ sending.waits <= limiter.config.max_retries
    /\ sending.requests <= limiter.config.max_retries + 1
    /\ \A error \in RequestErrors :
           (limiter.retry_count >= limiter.config.max_retries \/ ~IsRateLimit(error))
               => ~should_retry(limiter, error)
    /\ sending.state = "returned" => limiter.retry_count = 0

\* a rate-limit answer ends the call by raising exactly when the retries are
\* used up, any other error raises at once, a response returns
AnswerStep ==
    /\ \A error \in RequestErrors, roll \in RandomRolls :
           RequestFails(error, roll) =>
               IF IsRateLimit(error) /\ limiter.retry_count < limiter.config.max_retries
               THEN sending'.state = "requesting" /\ sending'.waits = sending.waits + 1
               ELSE sending'.state = "raised" /\ sending'.waits = sending.waits
    /\ RequestSucceeds => sending'.state = "returned" /\ limiter'.retry_count = 0

\* C20: a send_message call terminates: answered with rate-limit errors
\* only, it raises after at most max_retries waits, that is after at most
\* max_retries + 1 requests; should_retry is false whenever retry_count >=
\* max_retries and for every error that is not a rate-limit or overload
\* error; a successful request returns and sets retry_count to 0.
C20_SendMessageTerminates ==
    /\ []RetryBounded
    /\ [][AnswerStep]_vars
    /\ (sending.state = "requesting") ~> (sending.state \in {"returned", "raised"})

\* a call raised after max_retries waits and max_retries + 1 requests
C20_Witness ==
    /\ sending.state = "raised"
    /\ limiter.config.max_retries = MaxRetries
    /\ sending.waits = MaxRetries
    /\ sending.requests = MaxRetries + 1


(***************************************************************************)
(* The order of the ranking.                                               *)
(***************************************************************************)
\* the place of a ranked task in the collection the run was given
PlaceOf(task) == CHOOSE k \in TaskIndex : tasks[k] = task

\* C21: the list prioritize_tasks returns is sorted by score in non-increasing
\* order, and two tasks of equal score stand in the order they have in the
\* input collection.
C21_SortedStable ==
    rec # None =>
        LET ranked == LastRun.prioritized
        IN \A p, q \in 1..Len(ranked) :
               p < q =>
                   /\ ranked[p].score >= ranked[q].score
                   /\ ranked[p].score = ranked[q].score =>
                          PlaceOf(ranked[p].task) < PlaceOf(ranked[q].task)

\* a ranking that moved a later task of higher score in front of two tasks of
\* equal score
C21_Witness ==
    /\ rec # None
    /\ LET ranked == LastRun.prioritized
       IN /\ Len(ranked) = 3
          /\ ranked[1].score > ranked[2].score
          /\ ranked[2].score = ranked[3].score
          /\ PlaceOf(ranked[1].task) > PlaceOf(ranked[2].task)


\* the dependency ids of a task that no task of the collection carries
AbsentDeps(task) == {dep_id \in task.deps : \A j \in TaskIndex : tasks[j].id # dep_id}

\* the dependency ids of a task that only Done tasks carry
DoneDeps(task) ==
    {dep_id \in task.deps \ AbsentDeps(task) :
        \A j \in TaskIndex : tasks[j].id = dep_id => tasks[j].status = "DONE"}

\* C22: a dependency id that matches no task of the collection never blocks:
\* a task that is neither Done nor Cancelled and whose dependency ids are all
\* absent from the collection or carried by Done tasks is a candidate.
C22_AbsentNeverBlocks ==
    rec # None =>
        \A k \in TaskIndex :
            (IsActive(tasks[k]) /\ tasks[k].deps = AbsentDeps(tasks[k]) \cup DoneDeps(tasks[k]))
                => tasks[k].id \in Candidates

\* a candidate with one dependency id that is absent and one of a Done task
C22_Witness ==
    /\ rec # None
    /\ \E k \in TaskIndex :
           /\ AbsentDeps(tasks[k]) # {}
           /\ DoneDeps(tasks[k]) # {}
           /\ tasks[k].id \in Candidates


(***************************************************************************)
(* The hours a run charges and reports.                                    *)
(***************************************************************************)
\* C23: the time charged for a task in the selection and in total_hours is the
\* task's estimated hours whenever the field is present, 0 included; the
\* default of 2.0 is used only when the field is absent.
C23_ChargedAsEstimated ==
    rec # None =>
        /\ LastRun.result.total_hours = StatedTotal(Recommended)
        /\ \A p \in 1..Len(Recommended) :
               Estimated(Recommended[p].task) = StatedEstimate(Recommended[p].task)


\* the times the selection charged for the tasks it accepted
RECURSIVE ChargedTotal(_)
ChargedTotal(items) ==
    IF items = <<>> THEN 0
    ELSE Estimated(items[1].task) + ChargedTotal(Tail(items))

\* C24: in every result of recommend_for_today total_tasks is the number of
\* recommended tasks, total_hours the sum of the times charged during the
\* selection, available_hours the supplied budget, and remaining_hours is
\* max(0, budget - total_hours) and never negative; an empty collection or an
\* empty candidate list gives an empty recommendation with total_hours 0.
C24_ResultTotals ==
    rec # None =>
        LET result == LastRun.result
        IN /\ result.total_tasks = Len(result.recommended)
           /\ result.total_hours = ChargedTotal(result.recommended)
           /\ LastRun.hours # None => result.available_hours = Get(LastRun.hours)
           /\ result.remaining_hours >= 0
           /\ result.remaining_hours =
                  IF Budget - result.total_hours > 0 THEN Budget - result.total_hours ELSE 0
           /\ (tasks = <<>> \/ LastRun.available = <<>>) =>
                  /\ result.recommended = <<>>
                  /\ result.total_tasks = 0
                  /\ result.total_hours = 0

\* a run under a supplied budget that recommended two tasks and left hours over
C24_Witness ==
    /\ rec # None
    /\ LastRun.hours # None
    /\ Len(Recommended) >= 2
    /\ LastRun.result.total_hours > 0
    /\ LastRun.result.remaining_hours > 0


(***************************************************************************)
(* The mentions and ticket references of a parsed line.                    *)
(***************************************************************************)
\* the context of each trigger phrase of MentionTriggers: "ot" -> originator,
\* "zadacha" -> author, "svyazatsya s" -> coordination, "soglasovat s" ->
\* approval, "peredat" -> delegation
TriggerContext ==
    << MentionContexts[4].context, MentionContexts[5].context, MentionContexts[2].context,
       MentionContexts[1].context, MentionContexts[3].context >>

\* the trigger phrase that matched at a position where MENTION_PATTERN matches
TriggerAt(text, at) ==
    CHOOSE t \in 1..Len(MentionTriggers) :
        /\ StartsWithAt(text, at, MentionTriggers[t])
        /\ MentionAt(text, at).name
               = at + Len(MentionTriggers[t])
                 + RunIn(text, at + Len(MentionTriggers[t]), SpaceChars)

\* the contexts of the matches of a text by their trigger phrases, in order
RECURSIVE ContextsByTrigger(_, _)
ContextsByTrigger(text, from) ==
    LET at == CHOOSE p \in from..(Len(text) + 1) :
                  p > Len(text) \/ MentionAt(text, p).len > 0
    IN IF at > Len(text) THEN <<>>
       ELSE <<Some(TriggerContext[TriggerAt(text, at)])>>
            \o ContextsByTrigger(text, at + MentionAt(text, at).len)

\* C25: the context label of every extracted mention is determined only by
\* the trigger phrase that matched and does not depend on the letters of the
\* captured name.
C25_ContextByTrigger ==
    \A k \in TaskCalls :
        [m \in 1..Len(CallTask(k).mentions) |-> CallTask(k).mentions[m].mention_context]
            = ContextsByTrigger(StripNumberPrefix(CallText(k)), 1)


\* "http://" and "https://"
SchemeHttp == <<104, 116, 116, 112, 58, 47, 47>>

SchemeHttps == <<104, 116, 116, 112, 115, 58, 47, 47>>

\* an HTTP(S) URL ending in /browse/<TICKET> at a position: the length of the
\* URL and where its ticket starts, length 0 when none starts there
BrowseUrlAt(text, lowered, at) ==
    LET scheme == IF StartsWithAt(lowered, at, SchemeHttps) THEN Len(SchemeHttps)
                  ELSE IF StartsWithAt(lowered, at, SchemeHttp) THEN Len(SchemeHttp)
                  ELSE 0
        host == at + scheme
        run == RunNotIn(text, host, SpaceChars)
        splits == {k \in 1..run :
                      /\ StartsWithAt(lowered, host + k, Browse)
                      /\ TicketAt(text, host + k + Len(Browse)) > 0}
    IN IF scheme = 0 \/ splits = {} THEN [len |-> 0, ticket |-> 0]
       ELSE LET k == Min(splits)
                ticket == host + k + Len(Browse)
            IN [len |-> scheme + k + Len(Browse) + TicketAt(text, ticket),
                ticket |-> ticket]

\* the references of the ticket occurrences of a text, in order: a URL gives
\* one reference with the URL, a bare token one reference without
RECURSIVE OccurrenceRefs(_, _, _)
OccurrenceRefs(text, lowered, from) ==
    LET at == CHOOSE p \in from..(Len(text) + 1) :
                  \/ p > Len(text)
                  \/ BrowseUrlAt(text, lowered, p).len > 0
                  \/ TicketAt(text, p) > 0
    IN IF at > Len(text) THEN <<>>
       ELSE LET url == BrowseUrlAt(text, lowered, at)
                len == IF url.len > 0 THEN url.len ELSE TicketAt(text, at)
                ticket_id == IF url.len > 0
                             THEN SubSeq(text, url.ticket, at + len - 1)
                             ELSE SubSeq(text, at, at + len - 1)
            IN <<[ticket_id |-> ticket_id,
                  url |-> IF url.len > 0 THEN Some(SubSeq(text, at, at + len - 1))
                          ELSE None,
                  project |-> Project(ticket_id)]>>
               \o OccurrenceRefs(text, lowered, at + len)

\* C26: every ticket occurrence in a line yields exactly one ticket
\* reference, in order of occurrence and without merging duplicates: a bare
\* token gives its text as ticket_id, the letters before the hyphen as
\* project and no url; an HTTP(S) URL ending in /browse/<TICKET> gives one
\* reference with the ticket, its project and the URL verbatim, and no
\* further bare reference.
C26_OneRefPerOccurrence ==
    \A k \in TaskCalls :
        CallTask(k).jira_references
            = LET clean_text == StripNumberPrefix(CallText(k))
              IN OccurrenceRefs(clean_text, Lower(clean_text), 1)


\* C27: every task parse_task_list returns has a title that is not empty
\* after trimming white space; a line that is empty after stripping the
\* ordinal prefix yields no task, and no input makes the parser raise (every
\* call comes back with a task or with None).
C27_TitleNeverEmpty ==
    parsed # None =>
        /\ \A i \in 1..Len(Get(parsed).tasks) : Strip(Get(parsed).tasks[i].title) # <<>>
        /\ \A k \in 1..Len(Get(parsed).calls) :
               /\ (StripNumberPrefix(CallText(k)) = <<>>) <=> (k \notin TaskCalls)
               /\ k \in TaskCalls => Strip(CallTask(k).title) # <<>>
        /\ Len(Get(parsed).tasks) = Cardinality(TaskCalls)

\* a text with a line that is only an ordinal prefix and a line whose title
\* was trimmed
C27_Witness ==
    /\ parsed # None
    /\ \E k \in 1..Len(Get(parsed).calls) : k \notin TaskCalls
    /\ \E k \in TaskCalls :
           /\ Len(CallTask(k).title) < Len(CallTask(k).description)
           /\ CallTask(k).description[Len(CallTask(k).title) + 1] = Space


(***************************************************************************)
(* Dependency cycles.                                                      *)
(***************************************************************************)
\* task a lists the id of task b
DependsOn(a, b) == tasks[b].id \in tasks[a].deps

\* the tasks of the dependency cycles through task k none of whose tasks is
\* Done, as the paths from k back to k
OpenCyclesThrough(k) ==
    {path \in UNION {[1..m -> TaskIndex] : m \in 1..Len(tasks)} :
        /\ path[1] = k
        /\ \A p \in 1..Len(path) : tasks[path[p]].status # "DONE"
        /\ \A p \in 1..(Len(path) - 1) : DependsOn(path[p], path[p + 1])
        /\ DependsOn(path[Len(path)], k)}

InOpenCycle == {k \in TaskIndex : OpenCyclesThrough(k) # {}}

\* C28: when tasks form a dependency cycle (tasks depending on each other, or
\* a task listing its own id) and none of them is Done, no task of the cycle
\* is a candidate in any run; the run still ends and recommends the tasks
\* outside the cycle: the candidates, all of them when they fit the budget
\* and the maximum.
C28_CycleNeverAvailable ==
    rec # None =>
        /\ \A k \in InOpenCycle : tasks[k].id \notin Candidates
        /\ (ChargedTotal(LastRun.available) <= Budget
               /\ Len(LastRun.available) <= maxTasks /\ Len(LastRun.available) >= 1)
              => Recommended = LastRun.available
        /\ \A k \in TaskIndex \ InOpenCycle :
               (IsActive(tasks[k]) /\ tasks[k].deps = {}) => tasks[k].id \in Candidates

\* two tasks depend on each other, a third one outside the cycle is recommended
C28_Witness ==
    /\ rec # None
    /\ \E a, b, c \in TaskIndex :
           /\ a # b /\ c \notin {a, b}
           /\ DependsOn(a, b) /\ DependsOn(b, a)
           /\ {a, b} \subseteq InOpenCycle
           /\ tasks[c].id \in ItemIds(Recommended)


(***************************************************************************)
(* The backup files.                                                       *)
(***************************************************************************)
BackupNames(dir) == {backup.name : backup \in dir.backups}

\* C29: the data directory holds at most 10 backup files, one of a name; a
\* save_tasks call made while tasks.json exists copies its previous content
\* to the backup named by the moment and leaves the other backups as they
\* were, but for the oldest ones beyond 10, so that the backups kept are the
\* most recent ones; a call made without tasks.json touches no backup; after
\* the call tasks.json holds exactly the saved list.
C29_BackupsKept ==
    /\ [](/\ Cardinality(store.backups) <= KeptBackups
          /\ Cardinality(BackupNames(store)) = Cardinality(store.backups))
    /\ [][\A list \in BackupLists : SaveTasksFiles(list) =>
             LET made == BackupNames(store) \cup {BackupName(now)}
                 kept == BackupNames(store')
             IN /\ Get(store'.file).tasks = [k \in 1..Len(list) |-> to_dict(list[k])]
                /\ load_tasks(store', now') = list
                /\ store.file = None => store'.backups = store.backups
                /\ store.file # None =>
                      /\ [name |-> BackupName(now), content |-> Get(store.file)]
                            \in store'.backups
                      /\ \A backup \in store'.backups :
                             backup.name # BackupName(now) => backup \in store.backups
                      /\ kept \subseteq made
                      /\ \A dropped \in made \ kept, name \in kept :
                             NameBefore(dropped, name)
                      /\ Cardinality(kept) = Smaller(Cardinality(made), KeptBackups)]_vars

\* a full directory was saved to in two moments: the two oldest backups are
\* gone, the latest backup holds the list saved in the moment before
C29_Witness ==
    /\ Cardinality(store.backups) = KeptBackups
    /\ BackupName(DaysBefore(KeptBackups - 1)) \notin BackupNames(store)
    /\ BackupName(DaysBefore(KeptBackups - 2)) \in BackupNames(store)
    /\ \E backup \in store.backups :
           /\ backup.name = BackupName(now)
           /\ backup.content.updated_at = isoformat(Midnight)
           /\ Len(backup.content.tasks) = 2
    /\ now # Midnight
    /\ Len(Get(store.file).tasks) = 1


(***************************************************************************)
(* The retry count across calls.                                           *)
(***************************************************************************)
RetryCountBounded ==
    /\ 0 <= limiter.retry_count
    /\ limiter.retry_count <= limiter.config.max_retries
    /\ limiter.retry_count <= limiter.total_retries

\* the limiter has no retry left
Exhausted == limiter.retry_count = limiter.config.max_retries

\* the count is kept by the start of a call, is one more after each wait,
\* is 0 after a response and is kept by a raise; with no retry left, a
\* rate-limit error ends the call at once
RetryCountStep ==
    /\ SendMessage => limiter' = limiter
    /\ RequestSucceeds => limiter'.retry_count = 0
    /\ \A error \in RequestErrors, roll \in RandomRolls :
           RequestFails(error, roll) =>
               /\ sending'.state = "requesting" =>
                      /\ limiter'.retry_count = limiter.retry_count + 1
                      /\ limiter'.total_retries = limiter.total_retries + 1
               /\ sending'.state = "raised" => limiter' = limiter
               /\ (Exhausted /\ IsRateLimit(error)) =>
                      /\ sending'.state = "raised"
                      /\ sending'.waits = sending.waits
    /\ limiter'.retry_count # limiter.retry_count =>
           \/ RequestSucceeds
           \/ \E error \in RequestErrors, roll \in RandomRolls : RequestFails(error, roll)

\* C30: retry_count counts the retries since the last successful request,
\* not since the start of the current call: it lies between 0 and
\* max_retries and never exceeds total_retries; no call start changes it,
\* only a response sets it back to 0; so once a call used up its retries and
\* raised, every later call that meets a rate-limit error raises on its
\* first request without a wait, until a request succeeds.
C30_RetryCountPersists ==
    /\ []RetryCountBounded
    /\ [][RetryCountStep]_vars
    /\ [][(Exhausted /\ ~RequestSucceeds) => Exhausted']_vars

\* a call after an exhausted one met a rate-limit error on its first
\* request and raised without a wait
C30_Witness ==
    /\ sending.state = "raised"
    /\ sending.requests = 1
    /\ sending.waits = 0
    /\ limiter.config.max_retries = MaxRetries
    /\ limiter.retry_count = MaxRetries
    /\ limiter.total_retries = MaxRetries

====
